---------------------------- MODULE Spec2Model ----------------------------
(***************************************************************************)
(* Model of the jest-mq queue engine (class MessageQueue): the message     *)
(* store (ready, in-flight, acked), the consumer registry, and the         *)
(* flush/drain dispatch scheduler with its asynchronous handler            *)
(* invocations.                                                            *)
(*                                                                         *)
(* Message and consumer objects live in heaps (messages, consumerHeap);    *)
(* the lists of the queue hold handles (heap indices), as the code's       *)
(* arrays hold object references.  A handler invocation is the promise     *)
(* chain built by runHandler; each of its callbacks is one atomic step.    *)
(***************************************************************************)
EXTENDS Integers, Sequences, FiniteSets, TLC

\* ---------------------------------------------------------------- bounds
MaxMessages == 2
MaxConsumers == 2
MaxFlushes == 1
MaxAttempts == 1
MaxInvocations == 4
MaxCalls == 1

\* ------------------------------------------------------ program constants
\* Number.POSITIVE_INFINITY, the prefetch of a subscribe-created consumer
POSITIVE_INFINITY == 999
\* `consumerId === undefined`: an unattributed record, or no consumer filter
NoConsumer == -1
\* `type: undefined`, the untyped message class / catch-all consumer filter
Undefined == "undefined"

MessageTypes == {"work"}
\* The message classes of the typed scenarios: two types, the empty string
\* (a string like any other for `type?: string`) and the untyped class
TypeChoices == {"work", "other", "", Undefined}
PrefetchChoices == {1}

\* The rotation scenario: three consumers of one type, three messages, two
\* calls of flush
RotationConsumers == 3
RotationMessages == 3
RotationFlushes == 2

\* `name.length > 255`
NameLimit == 255

\* The redelivery scenario: one consumer; the counters that the queue writes
\* and flush never reads are kept up to CounterCap
RedeliveryConsumers == 1
CounterCap == 2

\* waitFor: the interval of setInterval in milliseconds, the delays a tick can
\* have after the previous one (timers fire on time or late), the timeoutMs
\* arguments and the number of waitFor calls of a behaviour
PollInterval == 10
TickDelays == { PollInterval, PollInterval + 5 }
WaitTimeouts == { 0, 20 }
MaxWaiters == 1

VARIABLES
    name,               \* this.name, as [kind, length, space] (see NameChoices)
    deliveryMode,       \* this.deliveryMode
    failFast,           \* this.failFast
    captureErrors,      \* this.captureErrors
    messages,           \* heap of message objects, handle = index
    consumerHeap,       \* heap of consumer objects, handle = index
    sentMessages,       \* this.sentMessages: ready list (message handles)
    inFlightRecords,    \* this.inFlightRecords: [message, consumerId]
    receivedMessages,   \* this.receivedMessages: acked list (message handles)
    consumers,          \* this.consumers: registry (consumer handles)
    messageCount,       \* this.messageCount
    consumerCount,      \* this.consumerCount
    nextConsumerIndex,  \* this.nextConsumerIndex: type -> rotation counter
    flushes,            \* the flush() calls made so far, with their locals
    invocations,        \* the handler invocations (runHandler promise chains)
    dropped,            \* history: messages discarded by a non-requeueing stop
    epoch,              \* history: the number of messages published before the last clear()
    calls,              \* history: receiveMessage/ack/nack/stop/clear calls that took effect
    waiters             \* the waitFor() calls made so far, with their locals

vars == << name, deliveryMode, failFast, captureErrors, messages, consumerHeap,
           sentMessages, inFlightRecords, receivedMessages, consumers,
           messageCount, consumerCount, nextConsumerIndex, flushes,
           invocations, dropped, epoch, calls, waiters >>

options == << name, deliveryMode, failFast, captureErrors >>

queueVars == << messages, consumerHeap, sentMessages, inFlightRecords,
               receivedMessages, consumers, nextConsumerIndex, invocations,
               dropped, epoch >>

\* ------------------------------------------------------------ sequences
Range(s) == { s[i] : i \in 1..Len(s) }

RemoveAt(s, i) == SubSeq(s, 1, i - 1) \o SubSeq(s, i + 1, Len(s))

\* Array.prototype.findIndex, 1-based; 0 stands for -1
FindIndex(s, P(_)) ==
    IF \E i \in 1..Len(s) : P(s[i])
    THEN CHOOSE i \in 1..Len(s) : P(s[i]) /\ \A j \in 1..(i - 1) : ~P(s[j])
    ELSE 0

\* Array.prototype.filter
Filter(s, P(_)) ==
    LET F[i \in 0..Len(s)] ==
            IF i = 0 THEN << >>
            ELSE IF P(s[i]) THEN Append(F[i - 1], s[i]) ELSE F[i - 1]
    IN  F[Len(s)]

Count(s, P(_)) == Cardinality({ i \in 1..Len(s) : P(s[i]) })

\* `n < prefetch`, where prefetch may be Number.POSITIVE_INFINITY
LessThanPrefetch(n, prefetch) ==
    IF prefetch = POSITIVE_INFINITY THEN TRUE ELSE n < prefetch

\* ------------------------------------------------------------ the queue
\* The mutable queue fields one synchronous step works on.
Queue == [ messages |-> messages, consumerHeap |-> consumerHeap,
           sentMessages |-> sentMessages, inFlightRecords |-> inFlightRecords,
           receivedMessages |-> receivedMessages, consumers |-> consumers,
           nextConsumerIndex |-> nextConsumerIndex,
           invocations |-> invocations, dropped |-> dropped,
           epoch |-> epoch ]

Commit(q) ==
    /\ messages' = q.messages
    /\ consumerHeap' = q.consumerHeap
    /\ sentMessages' = q.sentMessages
    /\ inFlightRecords' = q.inFlightRecords
    /\ receivedMessages' = q.receivedMessages
    /\ consumers' = q.consumers
    /\ nextConsumerIndex' = q.nextConsumerIndex
    /\ invocations' = q.invocations
    /\ dropped' = q.dropped
    /\ epoch' = q.epoch

\* this.consumers.find((item) => item.id === consumerId); 0 when not found
FindConsumer(q, consumerId) ==
    LET i == FindIndex(q.consumers, LAMBDA h : q.consumerHeap[h].id = consumerId)
    IN  IF i = 0 THEN 0 ELSE q.consumers[i]

findInFlightIndex(q, message, consumerId) ==
    FindIndex(q.inFlightRecords,
              LAMBDA record :
                  /\ q.messages[record.message].id = q.messages[message].id
                  /\ (consumerId = NoConsumer \/ record.consumerId = consumerId))

\* A faulty variant of removeFromConsumer: the owning consumer is found and
\* its in-flight list is left as it is.
removeFromConsumerKeepingHeld(q, record) ==
    IF record.consumerId = NoConsumer THEN [q |-> q, consumer |-> 0]
    ELSE [q |-> q, consumer |-> FindConsumer(q, record.consumerId)]

\* Returns [q, consumer]: the queue with the record's message taken out of the
\* owning consumer's in-flight list, and the consumer's handle (0: undefined).
removeFromConsumer(q, record) ==
    IF record.consumerId = NoConsumer THEN [q |-> q, consumer |-> 0]
    ELSE LET c == FindConsumer(q, record.consumerId) IN
         IF c = 0 THEN [q |-> q, consumer |-> 0]
         ELSE LET index == FindIndex(q.consumerHeap[c].inFlight,
                               LAMBDA m : q.messages[m].id = q.messages[record.message].id)
              IN  [q |-> IF index = 0 THEN q
                         ELSE [q EXCEPT !.consumerHeap[c].inFlight = RemoveAt(@, index)],
                   consumer |-> c]

requeue(q, message) ==
    [q EXCEPT !.messages[message].attempts = @ + 1,
              !.messages[message].redelivered = TRUE,
              !.sentMessages = Append(@, message)]

addInFlight(q, message, consumerId) ==
    LET q1 == [q EXCEPT !.inFlightRecords =
                   Append(@, [message |-> message, consumerId |-> consumerId])]
        c  == FindConsumer(q1, consumerId)
    IN  IF consumerId = NoConsumer \/ c = 0 THEN q1
        ELSE [q1 EXCEPT !.consumerHeap[c].inFlight = Append(@, message)]

\* A faulty variant of ackWithConsumer: the owning consumer's acked counter
\* is left as it is.
ackWithoutCounting(q, message, consumerId) ==
    LET recordIndex == findInFlightIndex(q, message, consumerId) IN
    IF recordIndex = 0 THEN q
    ELSE LET record == q.inFlightRecords[recordIndex]
             q1 == [q EXCEPT !.inFlightRecords = RemoveAt(@, recordIndex)]
             r  == removeFromConsumer(q1, record)
         IN  [r.q EXCEPT !.receivedMessages = Append(@, record.message)]

\* A faulty variant of ackWithConsumer: a message that is no longer in flight
\* is acknowledged all the same, and counted for the consumer named.
ackWhetherHeldOrNot(q, message, consumerId) ==
    LET recordIndex == findInFlightIndex(q, message, consumerId)
        c == FindConsumer(q, consumerId)
    IN
    IF recordIndex = 0
    THEN [(IF c = 0 THEN q ELSE [q EXCEPT !.consumerHeap[c].acked = @ + 1])
             EXCEPT !.receivedMessages = Append(@, message)]
    ELSE LET record == q.inFlightRecords[recordIndex]
             q1 == [q EXCEPT !.inFlightRecords = RemoveAt(@, recordIndex)]
             r  == removeFromConsumer(q1, record)
             q2 == IF r.consumer = 0 THEN r.q
                   ELSE [r.q EXCEPT !.consumerHeap[r.consumer].acked = @ + 1]
         IN  [q2 EXCEPT !.receivedMessages = Append(@, record.message)]

ackWithConsumer(q, message, consumerId) ==
    LET recordIndex == findInFlightIndex(q, message, consumerId) IN
    IF recordIndex = 0 THEN q
    ELSE LET record == q.inFlightRecords[recordIndex]
             q1 == [q EXCEPT !.inFlightRecords = RemoveAt(@, recordIndex)]
             r  == removeFromConsumer(q1, record)
             q2 == IF r.consumer = 0 THEN r.q
                   ELSE [r.q EXCEPT !.consumerHeap[r.consumer].acked = @ + 1]
         IN  [q2 EXCEPT !.receivedMessages = Append(@, record.message)]

\* A faulty variant of nackWithConsumer: the message goes back to ready with
\* its attempts and redelivered fields as they were.
nackWithoutAttempt(q, message, consumerId) ==
    LET recordIndex == findInFlightIndex(q, message, consumerId) IN
    IF recordIndex = 0 THEN q
    ELSE LET record == q.inFlightRecords[recordIndex]
             q1 == [q EXCEPT !.inFlightRecords = RemoveAt(@, recordIndex)]
             r  == removeFromConsumer(q1, record)
             q2 == IF r.consumer = 0 THEN r.q
                   ELSE [r.q EXCEPT !.consumerHeap[r.consumer].nacked = @ + 1]
         IN  [q2 EXCEPT !.sentMessages = Append(@, record.message)]

\* A faulty variant of nackWithConsumer: the message goes back to ready and
\* its in-flight record is left where it is.
nackKeepingRecord(q, message, consumerId) ==
    LET recordIndex == findInFlightIndex(q, message, consumerId) IN
    IF recordIndex = 0 THEN q
    ELSE LET record == q.inFlightRecords[recordIndex]
             r  == removeFromConsumer(q, record)
             q2 == IF r.consumer = 0 THEN r.q
                   ELSE [r.q EXCEPT !.consumerHeap[r.consumer].nacked = @ + 1]
         IN  requeue(q2, record.message)

nackWithConsumer(q, message, consumerId) ==
    LET recordIndex == findInFlightIndex(q, message, consumerId) IN
    IF recordIndex = 0 THEN q
    ELSE LET record == q.inFlightRecords[recordIndex]
             q1 == [q EXCEPT !.inFlightRecords = RemoveAt(@, recordIndex)]
             r  == removeFromConsumer(q1, record)
             q2 == IF r.consumer = 0 THEN r.q
                   ELSE [r.q EXCEPT !.consumerHeap[r.consumer].nacked = @ + 1]
         IN  requeue(q2, record.message)

RECURSIVE RequeueAll(_, _)
RequeueAll(q, list) ==
    IF list = << >> THEN q ELSE RequeueAll(requeue(q, Head(list)), Tail(list))

\* A faulty variant of stopConsumer: the consumer's in-flight list is kept, so
\* that a second stop finds it again.
stopKeepingHeld(q, consumer, requeueInFlight) ==
    LET held == q.consumerHeap[consumer].inFlight
        q1 == [q EXCEPT !.consumerHeap[consumer].stopped = TRUE,
                        !.consumers = Filter(@, LAMBDA item : item # consumer)]
        q2 == IF requeueInFlight THEN RequeueAll(q1, held) ELSE q1
    IN  IF Len(held) > 0
        THEN [q2 EXCEPT
                 !.inFlightRecords =
                     Filter(@, LAMBDA record :
                                   record.consumerId # q.consumerHeap[consumer].id),
                 !.dropped = IF requeueInFlight THEN @ ELSE @ \cup Range(held)]
        ELSE q2

\* A faulty variant of stopConsumer: what the consumer holds is never requeued.
stopWithoutRequeue(q, consumer, requeueInFlight) ==
    LET held == q.consumerHeap[consumer].inFlight
        q1 == [q EXCEPT !.consumerHeap[consumer].stopped = TRUE,
                        !.consumers = Filter(@, LAMBDA item : item # consumer)]
    IN  IF Len(held) > 0
        THEN [q1 EXCEPT
                 !.inFlightRecords =
                     Filter(@, LAMBDA record :
                                   record.consumerId # q.consumerHeap[consumer].id),
                 !.consumerHeap[consumer].inFlight = << >>]
        ELSE q1

stopConsumer(q, consumer, requeueInFlight) ==
    LET held == q.consumerHeap[consumer].inFlight
        q1 == [q EXCEPT !.consumerHeap[consumer].stopped = TRUE,
                        !.consumers = Filter(@, LAMBDA item : item # consumer)]
        q2 == IF requeueInFlight THEN RequeueAll(q1, held) ELSE q1
    IN  IF Len(held) > 0
        THEN [q2 EXCEPT
                 !.inFlightRecords =
                     Filter(@, LAMBDA record :
                                   record.consumerId # q.consumerHeap[consumer].id),
                 !.consumerHeap[consumer].inFlight = << >>,
                 !.dropped = IF requeueInFlight THEN @ ELSE @ \cup Range(held)]
        ELSE q2

\* A faulty variant of getConsumersForMessage: a consumer matches only the
\* messages whose type is its own, so a catch-all gets no typed message.
getConsumersOfSameType(q, message) ==
    Filter(q.consumers,
           LAMBDA c :
               /\ ~q.consumerHeap[c].stopped
               /\ q.consumerHeap[c].messageType = q.messages[message].type)

\* A faulty variant of getConsumersForMessage: every consumer ever created
\* whose type fits is taken, the stopped ones included.
getConsumersEverCreated(q, message) ==
    Filter([ c \in 1..Len(q.consumerHeap) |-> c ],
           LAMBDA c :
               IF q.messages[message].type = Undefined
               THEN q.consumerHeap[c].messageType = Undefined
               ELSE \/ q.consumerHeap[c].messageType = q.messages[message].type
                    \/ q.consumerHeap[c].messageType = Undefined)

getConsumersForMessage(q, message) ==
    Filter(q.consumers,
           LAMBDA c :
               IF q.consumerHeap[c].stopped THEN FALSE
               ELSE IF q.messages[message].type = Undefined
                    THEN q.consumerHeap[c].messageType = Undefined
                    ELSE \/ q.consumerHeap[c].messageType = q.messages[message].type
                         \/ q.consumerHeap[c].messageType = Undefined)

\* A faulty variant of HasCapacity: lets a consumer take one message more
\* than its prefetch.
HasCapacityOffByOne(q, c) ==
    LessThanPrefetch(Len(q.consumerHeap[c].inFlight), q.consumerHeap[c].prefetch + 1)

HasCapacity(q, c) ==
    LessThanPrefetch(Len(q.consumerHeap[c].inFlight), q.consumerHeap[c].prefetch)

\* A faulty variant of selectCompetingConsumer: takes the first matching
\* consumer, whatever it holds, and does not rotate.
selectFirstMatching(q, matching, messageType) ==
    [ q |-> q, selected |-> matching[1] ]

\* Returns [q, selected]: selected = 0 stands for undefined
selectCompetingConsumer(q, matching, messageType) ==
    LET available == Filter(matching, LAMBDA c : HasCapacity(q, c)) IN
    IF Len(available) = 0 THEN [q |-> q, selected |-> 0]
    ELSE LET nextIndex == q.nextConsumerIndex[messageType] IN
         [q |-> [q EXCEPT !.nextConsumerIndex[messageType] = nextIndex + 1],
          selected |-> available[(nextIndex % Len(available)) + 1]]

\* ------------------------------------------------- flush: one dispatch pass
\* History: a delivery (one splice of a message out of ready) and a dispatch
\* pass are named by the number of the first invocation made after they began.
NextDelivery(q) == Len(q.invocations) + 1

\* runHandler: builds the promise chain of one handler invocation and adds it
\* to the flush's pendingHandlers.  The handler itself runs in a later step.
runHandler(st, consumer, message, delivery) ==
    LET inv == [ flush |-> st.fl.id, consumer |-> consumer, message |-> message,
                 state |-> "scheduled", invoked |-> FALSE, failed |-> FALSE,
                 pass |-> st.pass, delivery |-> delivery ]
    IN  [st EXCEPT !.q.invocations = Append(@, inv),
                   !.fl.pendingHandlers = @ \cup { Len(st.q.invocations) + 1 }]

\* addInFlight(message, consumer.id); consumer.delivered += 1; runHandler(...)
Deliver(st, consumer, message, delivery) ==
    LET q1 == addInFlight(st.q, message, st.q.consumerHeap[consumer].id)
        q2 == [q1 EXCEPT !.consumerHeap[consumer].delivered = @ + 1]
    IN  runHandler([st EXCEPT !.q = q2], consumer, message, delivery)

\* A faulty variant of DeliverAll: only the first matching consumer is served.
DeliverFirst(st, matching, message, delivery) ==
    Deliver(st, Head(matching), message, delivery)

\* for (const consumer of matchingConsumers) { ... }
RECURSIVE DeliverAll(_, _, _, _)
DeliverAll(st, matching, message, delivery) ==
    IF matching = << >> THEN st
    ELSE DeliverAll(Deliver(st, Head(matching), message, delivery),
                    Tail(matching), message, delivery)

\* A faulty variant of CanDeliver: one matching consumer with capacity is
\* enough for the message to go to all of them.
CanDeliverToSome(q, matching) ==
    \E i \in 1..Len(matching) : HasCapacity(q, matching[i])

\* matchingConsumers.every((consumer) => consumer.inFlight.length < consumer.prefetch)
CanDeliver(q, matching) == \A i \in 1..Len(matching) : HasCapacity(q, matching[i])

\* The body of dispatchAvailable's for loop, from position index (1-based).
RECURSIVE DispatchFrom(_, _)

\* this.sentMessages.splice(index, 1); dispatched = true
Splice(st, index) ==
    [st EXCEPT !.q.sentMessages = RemoveAt(@, index), !.dispatched = TRUE]

\* A faulty variant of AfterDelivery: the loop goes on after a delivery
\* whether or not fail-fast is active.
AfterDeliveryGoingOn(st, index) == DispatchFrom(st, index)

\* if (failFast) break; else the loop goes on at the same index
AfterDelivery(st, index) ==
    IF st.fl.failFast THEN st ELSE DispatchFrom(st, index)

\* The competing branch, with the result sel of selectCompetingConsumer
DispatchCompeting(st, index, message, sel) ==
    IF sel.selected = 0 THEN DispatchFrom(st, index + 1)
    ELSE AfterDelivery(
             Deliver([Splice(st, index) EXCEPT
                         !.q.nextConsumerIndex = sel.q.nextConsumerIndex],
                     sel.selected, message, NextDelivery(st.q)),
             index)

\* One iteration of the loop, for the message at index and its consumers
DispatchMessage(st, index, message, matching) ==
    IF Len(matching) = 0 THEN DispatchFrom(st, index + 1)
    ELSE IF deliveryMode = "broadcast"
    THEN IF ~CanDeliver(st.q, matching) THEN DispatchFrom(st, index + 1)
         ELSE AfterDelivery(
                  DeliverAll(Splice(st, index), matching, message,
                             NextDelivery(st.q)),
                  index)
    ELSE DispatchCompeting(st, index, message,
             selectCompetingConsumer(st.q, matching, st.q.messages[message].type))

DispatchFrom(st, index) ==
    IF index > Len(st.q.sentMessages) \/ st.fl.stopDispatch THEN st
    ELSE DispatchMessage(st, index, st.q.sentMessages[index],
             getConsumersForMessage(st.q, st.q.sentMessages[index]))

dispatchAvailable(q, fl) ==
    DispatchFrom([ q |-> q, fl |-> fl, dispatched |-> FALSE,
                   pass |-> Len(q.invocations) + 1 ], 1)

\* ------------------------------------------------------ flush: the loop
\* A faulty variant of AwaitFinal: leaves the loop without awaiting the
\* pending handlers.
AwaitFinalNothing(q, fl) ==
    [ q |-> q, fl |-> [fl EXCEPT !.pc = "awaitFinal", !.waitOn = {}] ]

\* `await Promise.all(Array.from(pendingHandlers))` after the loop
AwaitFinal(q, fl) ==
    [ q |-> q, fl |-> [fl EXCEPT !.pc = "awaitFinal", !.waitOn = fl.pendingHandlers] ]

\* The while loop of flush, run from its head up to the next await.
RECURSIVE FlushLoop(_, _)

\* The loop body after `const dispatched = dispatchAvailable()`
AfterPass(st) ==
    IF st.fl.stopDispatch THEN AwaitFinal(st.q, st.fl)
    ELSE IF st.dispatched /\ st.fl.failFast /\ st.fl.pendingHandlers # {}
    THEN [ q |-> st.q,
           fl |-> [st.fl EXCEPT !.pc = "awaitAll", !.waitOn = st.fl.pendingHandlers] ]
    ELSE IF ~st.dispatched
    THEN IF st.fl.pendingHandlers = {} THEN AwaitFinal(st.q, st.fl)
         ELSE [ q |-> st.q,
                fl |-> [st.fl EXCEPT !.pc = "awaitRace",
                                     !.waitOn = st.fl.pendingHandlers] ]
    ELSE FlushLoop(st.q, st.fl)

FlushLoop(q, fl) == AfterPass(dispatchAvailable(q, fl))

\* A faulty variant of recordError: the error is kept but dispatch goes on.
recordErrorOnly(fl, error) ==
    [fl EXCEPT !.errors = Append(@, error)]

\* const recordError = (error) => { errors.push(...); if (failFast || !captureErrors) ... }
recordError(fl, error) ==
    [fl EXCEPT !.errors = Append(@, error),
               !.stopDispatch = IF fl.failFast \/ ~fl.captureErrors THEN TRUE ELSE @]

\* A faulty variant of Rejection: the aggregate holds the first error only.
RejectionOfFirst(fl) ==
    [ aggregate |-> fl.captureErrors, errors |-> << fl.errors[1] >> ]

\* What flush throws: the AggregateError of all errors, or errors[0]
Rejection(fl) ==
    IF fl.captureErrors THEN [ aggregate |-> TRUE, errors |-> fl.errors ]
    ELSE [ aggregate |-> FALSE, errors |-> << fl.errors[1] >> ]

NoRejection == [ aggregate |-> FALSE, errors |-> << >> ]

Done(i) == invocations[i].state = "done"

\* `options.x ?? this.x`; an option is {} when undefined, else { value }
Coalesce(option, default) ==
    IF option = {} THEN default ELSE CHOOSE value \in option : TRUE

FlushOptionChoices == { [ failFast |-> {}, captureErrors |-> {} ] }

\* ---------------------------------------------------------------- Init
\* The values a caller can pass as the queue's name, by what the constructor
\* looks at: strings of some length with or without a space; null or
\* undefined; a non-zero number; arrays (with or without " " as an element).
NameChoices ==
    { n \in [ kind : { "string", "array" }, length : { 0, 1, NameLimit, NameLimit + 1 },
              space : BOOLEAN ] : n.space => n.length > 0 }
    \cup { [ kind |-> "null", length |-> 0, space |-> FALSE ],
           [ kind |-> "number", length |-> 0, space |-> FALSE ] }

\* The three tests of the constructor.  `!name` holds of null, undefined and
\* the empty string; `name.length` of a number is undefined and
\* `undefined > 255` is false; `name.includes` of a number is not a function
\* and the call throws a TypeError.
constructorThrows(n) ==
    \/ n.kind = "null" \/ (n.kind = "string" /\ n.length = 0)
    \/ n.kind \in { "string", "array" } /\ n.length > NameLimit
    \/ IF n.kind \in { "string", "array" } THEN n.space ELSE TRUE

\* new MessageQueue("test")
TestName == [ kind |-> "string", length |-> 4, space |-> FALSE ]

ConstructNamed(nameChoices, deliveryModeChoices, failFastChoices, captureErrorsChoices) ==
    /\ name \in nameChoices
    /\ ~constructorThrows(name)
    /\ deliveryMode \in deliveryModeChoices
    /\ failFast \in failFastChoices
    /\ captureErrors \in captureErrorsChoices
    /\ messages = << >>
    /\ consumerHeap = << >>
    /\ sentMessages = << >>
    /\ inFlightRecords = << >>
    /\ receivedMessages = << >>
    /\ consumers = << >>
    /\ messageCount = 0
    /\ consumerCount = 0
    /\ nextConsumerIndex = [ t \in TypeChoices |-> 0 ]
    /\ flushes = << >>
    /\ invocations = << >>
    /\ dropped = {}
    /\ epoch = 0
    /\ calls = 0
    /\ waiters = << >>

Construct(deliveryModeChoices, failFastChoices, captureErrorsChoices) ==
    ConstructNamed({ TestName }, deliveryModeChoices, failFastChoices,
                   captureErrorsChoices)

\* Every combination of the constructor's options
Init == Construct({ "broadcast", "competing" }, BOOLEAN, BOOLEAN)

\* The options left at their defaults: failFast false, captureErrors true
InitDefault == Construct({ "broadcast", "competing" }, {FALSE}, {TRUE})

\* Competing delivery, the other options left at their defaults
InitCompeting == Construct({ "competing" }, {FALSE}, {TRUE})

\* Every name the constructor accepts, the options left at their defaults
InitNamed == ConstructNamed(NameChoices, { "broadcast" }, {FALSE}, {TRUE})

\* ------------------------------------------------------- public operations
\* A faulty variant of publish: the id is the number of messages published
\* since construction, whatever clear() did.
publishCountingAll(q, type) ==
    LET messageWithId == [ id |-> Len(q.messages), type |-> type,
                           attempts |-> 0, redelivered |-> FALSE ]
        q1 == [q EXCEPT !.messages = Append(@, messageWithId)]
    IN  [q1 EXCEPT !.sentMessages = Append(@, Len(q1.messages))]

\* A faulty variant of publish: the message is put at the head of ready.
publishAtHead(q, type) ==
    LET messageWithId == [ id |-> messageCount, type |-> type,
                           attempts |-> 0, redelivered |-> FALSE ]
        q1 == [q EXCEPT !.messages = Append(@, messageWithId)]
    IN  [q1 EXCEPT !.sentMessages = << Len(q1.messages) >> \o @]

publish(q, type) ==
    LET messageWithId == [ id |-> messageCount, type |-> type,
                           attempts |-> 0, redelivered |-> FALSE ]
        q1 == [q EXCEPT !.messages = Append(@, messageWithId)]
    IN  [q1 EXCEPT !.sentMessages = Append(@, Len(q1.messages))]

\* publish, in a behaviour of at most `bound` messages
PublishWithin(bound, type) ==
    /\ Len(messages) < bound
    /\ Commit(publish(Queue, type))
    /\ messageCount' = messageCount + 1
    /\ UNCHANGED << options, waiters, consumerCount, flushes, calls >>

Publish(type) == PublishWithin(MaxMessages, type)

\* `messageType ? ... : ...` tests the argument for truthiness: undefined and
\* the empty string both take the second branch
Truthy(messageType) == messageType # Undefined /\ messageType # ""

\* A faulty variant of receiveMessage: takes the ready message published
\* last, whatever its type.
receiveNewest(q, messageType, autoAck) ==
    IF Len(q.sentMessages) = 0 THEN q
    ELSE LET messageIndex == Len(q.sentMessages)
             message == q.sentMessages[messageIndex]
             q1 == [q EXCEPT !.sentMessages = RemoveAt(@, messageIndex)]
         IN  IF autoAck
             THEN [q1 EXCEPT !.receivedMessages = Append(@, message)]
             ELSE [q1 EXCEPT !.inFlightRecords =
                       Append(@, [message |-> message, consumerId |-> NoConsumer])]

receiveMessage(q, messageType, autoAck) ==
    LET messageIndex ==
            IF Truthy(messageType)
            THEN FindIndex(q.sentMessages, LAMBDA m : q.messages[m].type = messageType)
            ELSE IF Len(q.sentMessages) > 0 THEN 1 ELSE 0
    IN  IF messageIndex = 0 THEN q
        ELSE LET message == q.sentMessages[messageIndex]
                 q1 == [q EXCEPT !.sentMessages = RemoveAt(@, messageIndex)]
             IN  IF autoAck
                 THEN [q1 EXCEPT !.receivedMessages = Append(@, message)]
                 ELSE [q1 EXCEPT !.inFlightRecords =
                           Append(@, [message |-> message, consumerId |-> NoConsumer])]

\* A call that changes nothing leaves the state as it is; one that takes
\* effect is counted, and MaxCalls bounds how many of them a behaviour holds.
Call(q) ==
    /\ q # Queue
    /\ calls < MaxCalls
    /\ Commit(q)
    /\ calls' = calls + 1
    /\ UNCHANGED << options, waiters, messageCount, consumerCount, flushes >>

ReceiveMessage(messageType, autoAck) ==
    Call(receiveMessage(Queue, messageType, autoAck))

Ack(message) ==
    Call(ackWithConsumer(Queue, message, NoConsumer))

Nack(message) ==
    /\ messages[message].attempts < MaxAttempts
    /\ Call(nackWithConsumer(Queue, message, NoConsumer))

createConsumer(q, messageType, prefetch, autoAck, bySubscribe) ==
    LET consumer == [ id |-> consumerCount, messageType |-> messageType,
                      prefetch |-> prefetch, autoAck |-> autoAck,
                      inFlight |-> << >>, delivered |-> 0, acked |-> 0,
                      nacked |-> 0, stopped |-> FALSE,
                      bySubscribe |-> bySubscribe ]
        q1 == [q EXCEPT !.consumerHeap = Append(@, consumer)]
    IN  [q1 EXCEPT !.consumers = Append(@, Len(q1.consumerHeap))]

\* subscribe, in a behaviour of at most `bound` consumers
SubscribeWithin(bound, messageType) ==
    /\ Len(consumerHeap) < bound
    /\ Commit(createConsumer(Queue, messageType, POSITIVE_INFINITY, TRUE, TRUE))
    /\ consumerCount' = consumerCount + 1
    /\ UNCHANGED << options, waiters, messageCount, flushes, calls >>

Subscribe(messageType) == SubscribeWithin(MaxConsumers, messageType)

\* consume, in a behaviour of at most `bound` consumers
ConsumeWithin(bound, messageType, prefetch, autoAck) ==
    /\ Len(consumerHeap) < bound
    /\ prefetch > 0
    /\ Commit(createConsumer(Queue, messageType, prefetch, autoAck, FALSE))
    /\ consumerCount' = consumerCount + 1
    /\ UNCHANGED << options, waiters, messageCount, flushes, calls >>

Consume(messageType, prefetch, autoAck) ==
    ConsumeWithin(MaxConsumers, messageType, prefetch, autoAck)

\* consume with a prefetch that need not be a whole number.  The argument is
\* counted in halves (3 stands for 1.5).  createConsumer throws on
\* `prefetch <= 0` and on nothing else; the consumer is then held to
\* `inFlight.length < prefetch`, which for a whole length is the same as
\* being below the prefetch rounded up.
RoundedUp(halves) == (halves + 1) \div 2

ConsumeHalves(bound, messageType, halves, autoAck) ==
    /\ ~(halves <= 0)
    /\ ConsumeWithin(bound, messageType, RoundedUp(halves), autoAck)

\* unsubscribe() of subscribe, stop(options) of consume
Stop(consumer, requeueInFlight) ==
    /\ consumerHeap[consumer].bySubscribe => ~requeueInFlight
    /\ Call(stopConsumer(Queue, consumer, requeueInFlight))

\* --------------------------------------------------------- flush and drain
\* History: the pairs << message, consumer >> of the ready messages and their
\* matching consumers, in ready-list and registration order.
ReadyDeliveries(q) ==
    LET matching(i) == getConsumersForMessage(q, q.sentMessages[i])
        F[i \in 0..Len(q.sentMessages)] ==
            IF i = 0 THEN << >>
            ELSE F[i - 1] \o [ k \in 1..Len(matching(i)) |->
                                  << q.sentMessages[i], matching(i)[k] >> ]
    IN  F[Len(q.sentMessages)]

\* The locals of one flush call.  History fields: ready (what was deliverable
\* when flush was called) and startedAt (messageCount at that moment).
NewFlush(opts) ==
    [ id |-> Len(flushes) + 1,
      failFast |-> Coalesce(opts.failFast, failFast),
      captureErrors |-> Coalesce(opts.captureErrors, captureErrors),
      stopDispatch |-> FALSE, errors |-> << >>, pendingHandlers |-> {},
      pc |-> "start", waitOn |-> {}, rejection |-> NoRejection,
      ready |-> ReadyDeliveries(Queue), startedAt |-> messageCount ]

\* The call of flush(options): runs up to the first await.
FlushStartWithin(bound, opts) ==
    /\ Len(flushes) < bound
    /\ \E r \in { FlushLoop(Queue, NewFlush(opts)) } :
       /\ Len(r.q.invocations) <= MaxInvocations
       /\ flushes' = Append(flushes, r.fl)
       /\ Commit(r.q)
    /\ UNCHANGED << options, waiters, messageCount, consumerCount, calls >>

FlushStart(opts) == FlushStartWithin(MaxFlushes, opts)

\* The continuation after `await Promise.all(...)` / `await Promise.race(...)`
\* inside the loop.
FlushResume(f) ==
    /\ \/ flushes[f].pc = "awaitAll" /\ \A i \in flushes[f].waitOn : Done(i)
       \/ flushes[f].pc = "awaitRace" /\ \E i \in flushes[f].waitOn : Done(i)
    /\ \E r \in { IF flushes[f].pc = "awaitAll" /\ flushes[f].stopDispatch
                   THEN AwaitFinal(Queue, flushes[f])
                   ELSE FlushLoop(Queue, flushes[f]) } :
           /\ Len(r.q.invocations) <= MaxInvocations
           /\ flushes' = [flushes EXCEPT ![f] = r.fl]
           /\ Commit(r.q)
    /\ UNCHANGED << options, waiters, messageCount, consumerCount, calls >>

\* The continuation after the final await: flush resolves or throws.
FlushSettle(f) ==
    /\ flushes[f].pc = "awaitFinal"
    /\ \A i \in flushes[f].waitOn : Done(i)
    /\ flushes' = [flushes EXCEPT
           ![f].pc = IF Len(flushes[f].errors) > 0 THEN "rejected" ELSE "resolved",
           ![f].rejection = IF Len(flushes[f].errors) > 0
                            THEN Rejection(flushes[f]) ELSE NoRejection]
    /\ UNCHANGED << options, waiters, messages, consumerHeap, sentMessages, inFlightRecords,
                    receivedMessages, consumers, messageCount, consumerCount,
                    nextConsumerIndex, invocations, dropped, epoch, calls >>

\* ------------------------------------------------------ handler invocations
\* .then(() => consumer.handler(message)): microtasks run in the order queued
InvokeHandler(i) ==
    /\ invocations[i].state = "scheduled"
    /\ \A j \in 1..(i - 1) : invocations[j].state # "scheduled"
    /\ invocations' = [invocations EXCEPT ![i].state = "running", ![i].invoked = TRUE]
    /\ UNCHANGED << options, waiters, messages, consumerHeap, sentMessages, inFlightRecords,
                    receivedMessages, consumers, messageCount, consumerCount,
                    nextConsumerIndex, flushes, dropped, epoch, calls >>

\* A faulty variant of finally: the automatic acknowledgement names no
\* consumer, so that it takes the first in-flight record of the message.
finallyAckingAnyRecord(q, i) ==
    LET consumer == q.consumerHeap[q.invocations[i].consumer]
        q1 == IF consumer.autoAck
              THEN ackWithConsumer(q, q.invocations[i].message, NoConsumer)
              ELSE q
    IN  [q1 EXCEPT !.invocations[i].state = "done"]

\* A faulty variant of finally: the message is acknowledged whatever the
\* consumer's autoAck says.
finallyAckingAlways(q, i) ==
    LET consumer == q.consumerHeap[q.invocations[i].consumer]
        q1 == ackWithConsumer(q, q.invocations[i].message, consumer.id)
    IN  [q1 EXCEPT !.invocations[i].state = "done"]

\* .finally(() => { if (consumer.autoAck) ackWithConsumer(...); pendingHandlers.delete })
finally(q, i) ==
    LET consumer == q.consumerHeap[q.invocations[i].consumer]
        q1 == IF consumer.autoAck
              THEN ackWithConsumer(q, q.invocations[i].message, consumer.id)
              ELSE q
    IN  [q1 EXCEPT !.invocations[i].state = "done"]

\* The handler returns, or the promise it returned fulfils; .catch passes the
\* value on and the .finally callback runs.  No code of the queue runs between
\* the fulfilment and the callback, so they are one step.
HandlerFulfil(i) ==
    /\ invocations[i].state = "running"
    /\ Commit(finally(Queue, i))
    /\ flushes' = [flushes EXCEPT ![invocations[i].flush].pendingHandlers = @ \ { i }]
    /\ UNCHANGED << options, waiters, messageCount, consumerCount, calls >>

\* A faulty variant of HandlerReject: the failure also cancels the handlers
\* of the same flush that have not been invoked yet.
HandlerRejectCancelling(i) ==
    /\ invocations[i].state = "running"
    /\ invocations' =
           [ j \in 1..Len(invocations) |->
               IF j = i
               THEN [invocations[j] EXCEPT !.state = "caught", !.failed = TRUE]
               ELSE IF /\ invocations[j].flush = invocations[i].flush
                       /\ invocations[j].state = "scheduled"
                    THEN [invocations[j] EXCEPT !.state = "done"]
                    ELSE invocations[j] ]
    /\ flushes' = [flushes EXCEPT ![invocations[i].flush] = recordError(@, i)]
    /\ UNCHANGED << options, waiters, messages, consumerHeap, sentMessages, inFlightRecords,
                    receivedMessages, consumers, messageCount, consumerCount,
                    nextConsumerIndex, dropped, epoch, calls >>

\* A faulty variant of HandlerReject: the error is recorded by every flush
\* call that has not settled, not by the one that dispatched the invocation.
HandlerRejectToldToAll(i) ==
    /\ invocations[i].state = "running"
    /\ invocations' = [invocations EXCEPT ![i].state = "caught", ![i].failed = TRUE]
    /\ flushes' = [ f \in 1..Len(flushes) |->
                      IF flushes[f].pc \in { "resolved", "rejected" }
                      THEN flushes[f] ELSE recordError(flushes[f], i) ]
    /\ UNCHANGED << options, waiters, messages, consumerHeap, sentMessages, inFlightRecords,
                    receivedMessages, consumers, messageCount, consumerCount,
                    nextConsumerIndex, dropped, epoch, calls >>

\* The handler throws, or the promise it returned rejects, and the callback
\* .catch((error) => { recordError(error); }) runs.
HandlerReject(i) ==
    /\ invocations[i].state = "running"
    /\ invocations' = [invocations EXCEPT ![i].state = "caught", ![i].failed = TRUE]
    /\ flushes' = [flushes EXCEPT ![invocations[i].flush] = recordError(@, i)]
    /\ UNCHANGED << options, waiters, messages, consumerHeap, sentMessages, inFlightRecords,
                    receivedMessages, consumers, messageCount, consumerCount,
                    nextConsumerIndex, dropped, epoch, calls >>

\* The .finally callback of an invocation whose error was recorded
Finally(i) ==
    /\ invocations[i].state = "caught"
    /\ Commit(finally(Queue, i))
    /\ flushes' = [flushes EXCEPT ![invocations[i].flush].pendingHandlers = @ \ { i }]
    /\ UNCHANGED << options, waiters, messageCount, consumerCount, calls >>

\* clear(): the three lists, the registry and the counters are reset; message
\* and consumer objects that handlers or callers still hold stay as they are.
clear(q) ==
    [q EXCEPT !.sentMessages = << >>,
              !.inFlightRecords = << >>,
              !.receivedMessages = << >>,
              !.consumers = << >>,
              !.nextConsumerIndex = [ t \in DOMAIN @ |-> 0 ],
              !.dropped = {},
              !.epoch = Len(q.messages)]

Clear ==
    /\ calls < MaxCalls
    /\ Commit(clear(Queue))
    /\ messageCount' = 0
    /\ consumerCount' = 0
    /\ calls' = calls + 1
    /\ UNCHANGED << options, waiters, flushes >>

\* ---------------------------------------------------------------- Next
Next ==
    \/ \E type \in MessageTypes : Publish(type)
    \/ \E type \in MessageTypes \cup { Undefined }, autoAck \in BOOLEAN :
           ReceiveMessage(type, autoAck)
    \/ \E m \in 1..Len(messages) : Ack(m)
    \/ \E m \in 1..Len(messages) : Nack(m)
    \/ \E type \in MessageTypes : Subscribe(type)
    \/ \E type \in MessageTypes, prefetch \in PrefetchChoices, autoAck \in BOOLEAN :
           Consume(type, prefetch, autoAck)
    \/ \E c \in 1..Len(consumerHeap), requeueInFlight \in BOOLEAN :
           Stop(c, requeueInFlight)
    \/ \E opts \in FlushOptionChoices : FlushStart(opts)
    \/ \E f \in 1..Len(flushes) : FlushResume(f)
    \/ \E f \in 1..Len(flushes) : FlushSettle(f)
    \/ \E i \in 1..Len(invocations) : InvokeHandler(i)
    \/ \E i \in 1..Len(invocations) : HandlerFulfil(i)
    \/ \E i \in 1..Len(invocations) : HandlerReject(i)
    \/ \E i \in 1..Len(invocations) : Finally(i)

Spec == Init /\ [][Next]_vars

\* The queue with its default options, and clear() among the operations
NextClear == Next \/ Clear

\* Messages and consumers of several types and of none, handlers that succeed
NextTypes ==
    \/ \E type \in TypeChoices : Publish(type)
    \/ \E type \in TypeChoices, autoAck \in BOOLEAN : ReceiveMessage(type, autoAck)
    \/ \E type \in TypeChoices : Subscribe(type)
    \/ \E c \in 1..Len(consumerHeap) : Stop(c, FALSE)
    \/ \E opts \in FlushOptionChoices : FlushStart(opts)
    \/ \E f \in 1..Len(flushes) : FlushResume(f)
    \/ \E f \in 1..Len(flushes) : FlushSettle(f)
    \/ \E i \in 1..Len(invocations) : InvokeHandler(i)
    \/ \E i \in 1..Len(invocations) : HandlerFulfil(i)

SpecTypes == InitDefault /\ [][NextTypes]_vars

SpecClear == InitDefault /\ [][NextClear]_vars

\* consume called with whole and fractional, positive and non-positive prefetch
PrefetchHalves == -2..4

NextPrefetch ==
    \/ \E halves \in PrefetchHalves, autoAck \in BOOLEAN :
           ConsumeHalves(MaxConsumers, "work", halves, autoAck)
    \/ Publish("work")
    \/ \E opts \in FlushOptionChoices : FlushStart(opts)
    \/ \E f \in 1..Len(flushes) : FlushResume(f)
    \/ \E f \in 1..Len(flushes) : FlushSettle(f)
    \/ \E i \in 1..Len(invocations) : InvokeHandler(i)
    \/ \E i \in 1..Len(invocations) : HandlerFulfil(i)

SpecPrefetch == InitDefault /\ [][NextPrefetch]_vars

\* getQueue() in snapshot mode: `[...this.sentMessages]`, `[...this.receivedMessages]`
\* and `inFlightRecords.map((record) => record.message)` are new arrays of the
\* queue's own message objects.  A write to one of the arrays reaches nothing
\* of the queue; a write to a field of an element is a write to the message
\* itself.  SnapshotWrite is the caller taking a snapshot and setting the type
\* and the attempts of the i-th message of its ready list.
SnapshotWrite(i, type, attempts) ==
    /\ i \in 1..Len(sentMessages)
    /\ messages' = [messages EXCEPT ![sentMessages[i]].type = type,
                                    ![sentMessages[i]].attempts = attempts]
    /\ messages' # messages
    /\ UNCHANGED << options, waiters, consumerHeap, sentMessages, inFlightRecords,
                    receivedMessages, consumers, messageCount, consumerCount,
                    nextConsumerIndex, flushes, invocations, dropped, epoch,
                    calls >>

\* Callers that write to the snapshots they take
NextSnapshot ==
    \/ \E type \in { "work", "other" } : Publish(type)
    \/ \E type \in { "work", "other" }, autoAck \in BOOLEAN :
           ReceiveMessage(type, autoAck)
    \/ Subscribe("work")
    \/ \E i \in 1..MaxMessages, type \in { "work", "other" },
          attempts \in 0..MaxAttempts : SnapshotWrite(i, type, attempts)
    \/ \E opts \in FlushOptionChoices : FlushStart(opts)
    \/ \E f \in 1..Len(flushes) : FlushResume(f)
    \/ \E f \in 1..Len(flushes) : FlushSettle(f)
    \/ \E i \in 1..Len(invocations) : InvokeHandler(i)
    \/ \E i \in 1..Len(invocations) : HandlerFulfil(i)

SpecSnapshot == InitDefault /\ [][NextSnapshot]_vars

\* Queues of every name that can be constructed, with a subscriber
NextNamed ==
    \/ Publish("work")
    \/ Subscribe("work")
    \/ \E opts \in FlushOptionChoices : FlushStart(opts)
    \/ \E f \in 1..Len(flushes) : FlushResume(f)
    \/ \E f \in 1..Len(flushes) : FlushSettle(f)
    \/ \E i \in 1..Len(invocations) : InvokeHandler(i)
    \/ \E i \in 1..Len(invocations) : HandlerFulfil(i)

SpecNamed == InitNamed /\ [][NextNamed]_vars

\* -------------------------------------------------------------- waitFor
\* The predicates passed to waitFor: `() => queue.readyCount() === 1` and
\* `() => false`
PredicateChoices == { "readyCountIs1", "false" }

Holds(predicate) ==
    IF predicate = "readyCountIs1" THEN Len(sentMessages) = 1 ELSE FALSE

\* waitFor(predicate, { timeoutMs }): the executor records the start time and
\* sets the interval.  History: polls, the predicate's value and the elapsed
\* time at every tick.
WaitFor(predicate, timeoutMs) ==
    /\ Len(waiters) < MaxWaiters
    /\ waiters' = Append(waiters, [ predicate |-> predicate, timeoutMs |-> timeoutMs,
                                    elapsed |-> 0, state |-> "polling",
                                    polls |-> << >> ])
    /\ UNCHANGED << options, queueVars, messageCount, consumerCount, flushes, calls >>

\* A faulty variant of intervalCallback: the timeout is tested before the
\* predicate.
intervalCallbackTimeoutFirst(waiter, now, holds) ==
    [waiter EXCEPT !.elapsed = now,
                   !.polls = Append(@, [ holds |-> holds, at |-> now ]),
                   !.state = IF now > waiter.timeoutMs THEN "rejected"
                             ELSE IF holds THEN "resolved"
                             ELSE "polling"]

\* The callback of setInterval at time `now` after the start, the predicate
\* returning `holds`
intervalCallback(waiter, now, holds) ==
    [waiter EXCEPT !.elapsed = now,
                   !.polls = Append(@, [ holds |-> holds, at |-> now ]),
                   !.state = IF holds THEN "resolved"
                             ELSE IF now > waiter.timeoutMs THEN "rejected"
                             ELSE "polling"]

\* A tick of the interval; clearInterval leaves a settled waiter without ticks
PollTick(w, delay) ==
    /\ waiters[w].state = "polling"
    /\ waiters' = [waiters EXCEPT
           ![w] = intervalCallback(@, @.elapsed + delay, Holds(@.predicate))]
    /\ UNCHANGED << options, queueVars, messageCount, consumerCount, flushes, calls >>

\* Callers that wait for the queue to hold one ready message
NextWait ==
    \/ Publish("work")
    \/ \E autoAck \in BOOLEAN : ReceiveMessage("work", autoAck)
    \/ \E predicate \in PredicateChoices, timeoutMs \in WaitTimeouts :
           WaitFor(predicate, timeoutMs)
    \/ \E w \in 1..Len(waiters), delay \in TickDelays : PollTick(w, delay)

SpecWait == InitDefault /\ [][NextWait]_vars

\* ------------------------------------------------------------ redelivery
\* Handlers that nack the message they are given.  flush reads neither
\* attempts nor the consumers' delivered, acked and nacked counters, and holds
\* no reference to a promise chain once `pendingHandlers.delete(processing)`
\* has run; in this scenario the counters are kept up to CounterCap and the
\* settled chains are forgotten, so that a queue that comes back to where it
\* was is the same state.
AtMostCap(n) == IF n > CounterCap THEN CounterCap ELSE n

Capped(q) ==
    [q EXCEPT
       !.messages = [ m \in DOMAIN @ |-> [@[m] EXCEPT !.attempts = AtMostCap(@)] ],
       !.consumerHeap = [ c \in DOMAIN @ |->
                            [@[c] EXCEPT !.delivered = AtMostCap(@),
                                         !.acked = AtMostCap(@),
                                         !.nacked = AtMostCap(@)] ]]

Collected(q, fl) ==
    IF /\ fl.pendingHandlers = {}
       /\ \A i \in 1..Len(q.invocations) : q.invocations[i].state = "done"
    THEN [q EXCEPT !.invocations = << >>]
    ELSE q

\* Broadcast delivery, the other options left at their defaults
InitBroadcast == Construct({ "broadcast" }, {FALSE}, {TRUE})

\* The handler calls nack(message) and returns; the .finally callback runs.
HandlerNacks(i) ==
    /\ invocations[i].state = "running"
    /\ Commit(Capped(finally(nackWithConsumer(Queue, invocations[i].message,
                                              NoConsumer), i)))
    /\ flushes' = [flushes EXCEPT ![invocations[i].flush].pendingHandlers = @ \ { i }]
    /\ UNCHANGED << options, waiters, messageCount, consumerCount, calls >>

\* The continuation after `await Promise.race(pendingHandlers)`
FlushResumeAfterRace(f) ==
    /\ flushes[f].pc = "awaitRace"
    /\ \E i \in flushes[f].waitOn : Done(i)
    /\ \E r \in { FlushLoop(Collected(Queue, flushes[f]), flushes[f]) } :
           /\ Len(r.q.invocations) <= MaxInvocations
           /\ flushes' = [flushes EXCEPT ![f] = r.fl]
           /\ Commit(Capped(r.q))
    /\ UNCHANGED << options, waiters, messageCount, consumerCount, calls >>

NextRedelivery ==
    \/ Publish("work")
    \/ ConsumeWithin(RedeliveryConsumers, "work", 1, FALSE)
    \/ \E opts \in FlushOptionChoices : FlushStart(opts)
    \/ \E f \in 1..Len(flushes) : FlushResumeAfterRace(f)
    \/ \E f \in 1..Len(flushes) : FlushSettle(f)
    \/ \E i \in 1..Len(invocations) : InvokeHandler(i)
    \/ \E i \in 1..Len(invocations) : HandlerNacks(i)
    \/ \E i \in 1..Len(invocations) : HandlerFulfil(i)

\* A flush can go on after `await Promise.race(pendingHandlers)`
ResumeDue ==
    \E f \in 1..Len(flushes) :
        flushes[f].pc = "awaitRace" /\ \E i \in flushes[f].waitOn : Done(i)

\* The event loop runs the continuations and callbacks that are due, and
\* every handler that was invoked settles, by a nack or without one: weak
\* fairness of each kind of step.  For the continuation after the race it is
\* written out, with ResumeDue for the enabling condition of the step.
SpecRedelivery ==
    /\ InitBroadcast
    /\ [][NextRedelivery]_vars
    /\ \/ []<>~ResumeDue
       \/ []<><<\E f \in 1..Len(flushes) : FlushResumeAfterRace(f)>>_vars
    /\ WF_vars(\E f \in 1..Len(flushes) : FlushSettle(f))
    /\ WF_vars(\E i \in 1..Len(invocations) : InvokeHandler(i))
    /\ WF_vars(\E i \in 1..Len(invocations) : HandlerNacks(i) \/ HandlerFulfil(i))

\* ---------------------------------------------------------------- broker
\* One autoAck consumer whose handler calls ack(message) itself, as the
\* README's registerOrderConsumer does, before it returns or throws.
BrokerConsumers == 1

\* The handler of invocation i calls ack(message)
HandlerCallsAck(i) ==
    /\ invocations[i].state = "running"
    /\ Commit(ackWithConsumer(Queue, invocations[i].message, NoConsumer))
    /\ UNCHANGED << options, waiters, messageCount, consumerCount, flushes, calls >>

NextBroker ==
    \/ Publish("work")
    \/ SubscribeWithin(BrokerConsumers, "work")
    \/ \E prefetch \in PrefetchChoices :
           ConsumeWithin(BrokerConsumers, "work", prefetch, TRUE)
    \/ \E opts \in FlushOptionChoices : FlushStart(opts)
    \/ \E f \in 1..Len(flushes) : FlushResume(f)
    \/ \E f \in 1..Len(flushes) : FlushSettle(f)
    \/ \E i \in 1..Len(invocations) : InvokeHandler(i)
    \/ \E i \in 1..Len(invocations) : HandlerCallsAck(i)
    \/ \E i \in 1..Len(invocations) : HandlerFulfil(i)
    \/ \E i \in 1..Len(invocations) : HandlerReject(i)
    \/ \E i \in 1..Len(invocations) : Finally(i)

SpecBroker == InitDefault /\ [][NextBroker]_vars

\* --------------------------------------------------------------- overlap
\* flush called again while an earlier call has not settled; handlers that
\* succeed or fail, and no ack, nack, receiveMessage or stop call
OverlapFlushes == 2

NextOverlap ==
    \/ Publish("work")
    \/ Subscribe("work")
    \/ \E prefetch \in PrefetchChoices : Consume("work", prefetch, TRUE)
    \/ \E opts \in FlushOptionChoices : FlushStartWithin(OverlapFlushes, opts)
    \/ \E f \in 1..Len(flushes) : FlushResume(f)
    \/ \E f \in 1..Len(flushes) : FlushSettle(f)
    \/ \E i \in 1..Len(invocations) : InvokeHandler(i)
    \/ \E i \in 1..Len(invocations) : HandlerFulfil(i)
    \/ \E i \in 1..Len(invocations) : HandlerReject(i)
    \/ \E i \in 1..Len(invocations) : Finally(i)

SpecOverlap == Init /\ [][NextOverlap]_vars

\* Competing consumers of one type, all registered before the first flush and
\* never stopped; handlers that succeed
NextRotation ==
    \/ flushes = << >> /\ SubscribeWithin(RotationConsumers, "work")
    \/ flushes = << >> /\ \E prefetch \in PrefetchChoices :
                             ConsumeWithin(RotationConsumers, "work", prefetch, TRUE)
    \/ PublishWithin(RotationMessages, "work")
    \/ \E opts \in FlushOptionChoices : FlushStartWithin(RotationFlushes, opts)
    \/ \E f \in 1..Len(flushes) : FlushResume(f)
    \/ \E f \in 1..Len(flushes) : FlushSettle(f)
    \/ \E i \in 1..Len(invocations) : InvokeHandler(i)
    \/ \E i \in 1..Len(invocations) : HandlerFulfil(i)

SpecRotation == InitCompeting /\ [][NextRotation]_vars

\* ------------------------------------------------------------- properties
InvocationsOf(f) == { i \in 1..Len(invocations) : invocations[i].flush = f }

Settled(f) == flushes[f].pc \in { "resolved", "rejected" }

\* The number of places that hold message m: entries of ready, in-flight
\* records and entries of acked.
Occurrences(m) ==
    Count(sentMessages, LAMBDA x : x = m)
    + Count(inFlightRecords, LAMBDA record : record.message = m)
    + Count(receivedMessages, LAMBDA x : x = m)

\* C1: readyCount() + inFlightCount() + ackedCount() equals the number of
\* messages published minus the number of messages dropped by a
\* non-requeueing stop, in every reachable state and in either delivery mode.
C1_CountConservation ==
    Len(sentMessages) + Len(inFlightRecords) + Len(receivedMessages)
        = messageCount - Cardinality(dropped)

\* C2: every published message that was not dropped by a non-requeueing stop
\* is held in exactly one of ready, in-flight and acked, exactly once.
C2_ExactlyOnePlace ==
    \A m \in 1..Len(messages) : m \notin dropped => Occurrences(m) = 1

\* C3: a flush does not settle, by resolving or by rejecting, while a handler
\* invocation it dispatched is still unsettled (its promise chain, up to the
\* .finally callback, has not run to its end).
C3_SettlesAfterHandlers ==
    \A f \in 1..Len(flushes) :
        Settled(f) => \A i \in InvocationsOf(f) : invocations[i].state = "done"

\* A rejected flush that dispatched two invocations, the second of which
\* failed.
C3_Witness ==
    \E f \in 1..Len(flushes) :
        /\ flushes[f].pc = "rejected"
        /\ \E i, j \in InvocationsOf(f) : i < j /\ invocations[j].failed

\* The records of inFlightRecords owned by consumer c
RecordsOf(c) ==
    { r \in 1..Len(inFlightRecords) :
          inFlightRecords[r].consumerId = consumerHeap[c].id }

\* Some record of the list records is owned by consumerId and holds m
HeldIn(records, consumerId, m) ==
    \E r \in 1..Len(records) :
        records[r].consumerId = consumerId /\ records[r].message = m

WithinPrefetch(c) ==
    \/ consumerHeap[c].prefetch = POSITIVE_INFINITY
    \/ /\ Len(consumerHeap[c].inFlight) <= consumerHeap[c].prefetch
       /\ Cardinality(RecordsOf(c)) <= consumerHeap[c].prefetch

\* C4: the number of messages in flight under a consumer never exceeds its
\* prefetch; and when a step dispatches a message to a prefetch-1 consumer,
\* every message dispatched to that consumer before has left in-flight.
C4_PrefetchCap ==
    /\ [](\A c \in 1..Len(consumerHeap) : WithinPrefetch(c))
    /\ [][\A j \in (Len(invocations) + 1)..Len(invocations') :
              LET c == invocations'[j].consumer IN
              consumerHeap'[c].prefetch = 1 =>
                  /\ HeldIn(inFlightRecords', consumerHeap'[c].id, invocations'[j].message)
                  /\ \A i \in 1..(j - 1) :
                         (invocations'[i].consumer = c
                            /\ invocations'[i].message # invocations'[j].message)
                         => ~HeldIn(inFlightRecords', consumerHeap'[c].id,
                                    invocations'[i].message)
       ]_vars

\* A prefetch-1 consumer that was given two messages, the second in flight.
C4_Witness ==
    \E c \in 1..Len(consumerHeap) :
        /\ consumerHeap[c].prefetch = 1
        /\ consumerHeap[c].delivered = 2
        /\ Len(consumerHeap[c].inFlight) = 1
        /\ \E i, j \in 1..Len(invocations) :
               /\ i < j
               /\ invocations[i].consumer = c /\ invocations[j].consumer = c
               /\ invocations[i].message # invocations[j].message

\* The messages handed to consumer c's handler by flush f, in invocation order
SeenBy(f, c) ==
    LET F[i \in 0..Len(invocations)] ==
            IF i = 0 THEN << >>
            ELSE IF /\ invocations[i].flush = f
                    /\ invocations[i].consumer = c
                    /\ invocations[i].invoked
                 THEN Append(F[i - 1], invocations[i].message)
                 ELSE F[i - 1]
    IN  F[Len(invocations)]

\* The messages that were ready and matched consumer c when flush f was called
ReadyFor(f, c) ==
    LET pairs == flushes[f].ready
        F[k \in 0..Len(pairs)] ==
            IF k = 0 THEN << >>
            ELSE IF pairs[k][2] = c THEN Append(F[k - 1], pairs[k][1]) ELSE F[k - 1]
    IN  F[Len(pairs)]

IsPrefix(s, t) == Len(s) <= Len(t) /\ SubSeq(t, 1, Len(s)) = s

\* Flush f was called in broadcast mode with subscribe consumers only
BroadcastToSubscribers(f) ==
    /\ deliveryMode = "broadcast"
    /\ \A k \in 1..Len(flushes[f].ready) :
           consumerHeap[flushes[f].ready[k][2]].bySubscribe

\* Every consumer matching at the call has been handed, first of all and once
\* each, the messages that were ready for it, in ready-list order.
EveryConsumerSawReady(f) ==
    \A k \in 1..Len(flushes[f].ready) :
        IsPrefix(ReadyFor(f, flushes[f].ready[k][2]),
                 SeenBy(f, flushes[f].ready[k][2]))

Dispatched == (Len(invocations) + 1)..Len(invocations')

\* A step's dispatches in competing mode: each dispatched message was ready,
\* goes to one registered consumer that matches it and whose in-flight list,
\* counting what the step already gave it, was below its prefetch, and is in
\* flight once, under that consumer.
OneConsumerPerDispatch ==
    \A j \in Dispatched :
        LET c == invocations'[j].consumer
            m == invocations'[j].message
        IN  /\ c \in Range(consumers) /\ ~consumerHeap[c].stopped
            /\ consumerHeap[c].messageType \in { messages[m].type, Undefined }
            /\ m \in Range(sentMessages)
            /\ \A k \in Dispatched : k # j => invocations'[k].message # m
            /\ Cardinality({ r \in 1..Len(inFlightRecords') :
                                inFlightRecords'[r].message = m }) = 1
            /\ HeldIn(inFlightRecords', consumerHeap[c].id, m)
            /\ \/ consumerHeap[c].prefetch = POSITIVE_INFINITY
               \/ Len(consumerHeap[c].inFlight)
                    + Cardinality({ k \in Dispatched :
                                      k <= j /\ invocations'[k].consumer = c })
                      <= consumerHeap[c].prefetch

\* Flush f was called on a competing queue that had dispatched nothing yet,
\* with two registered consumers and two ready messages, every consumer
\* matching every message; no message was published, no consumer registered
\* and no receiveMessage, ack, nack or stop call was made since.
TwoConsumersTwoMessages(f) ==
    /\ deliveryMode = "competing"
    /\ consumerCount = 2
    /\ \A i \in 1..Len(invocations) : invocations[i].flush = f
    /\ flushes[f].ready = << << 1, 1 >>, << 1, 2 >>, << 2, 1 >>, << 2, 2 >> >>
    /\ flushes[f].startedAt = messageCount
    /\ calls = 0

EachReceivedOne(f) == SeenBy(f, 1) = << 1 >> /\ SeenBy(f, 2) = << 2 >>

FailedFast(f) ==
    /\ flushes[f].failFast
    /\ \E i \in InvocationsOf(f) : invocations[i].failed

\* A step after the failure adds no invocation to flush f, and a step of
\* flush f itself leaves ready, in-flight and the invocations as they are.
NoFurtherDispatch(f) ==
    /\ \A j \in Dispatched : invocations'[j].flush # f
    /\ flushes'[f].pc # flushes[f].pc =>
           /\ sentMessages' = sentMessages
           /\ inFlightRecords' = inFlightRecords
           /\ invocations' = invocations

\* C7: in a flush with fail-fast active, after a handler invocation has failed
\* the flush dispatches no further message (what is ready stays ready as far
\* as this flush is concerned), and it settles by rejecting, only when every
\* invocation it dispatched has settled.
C7_FailFastStops ==
    /\ [][\A f \in 1..Len(flushes) : FailedFast(f) => NoFurtherDispatch(f)]_vars
    /\ [](\A f \in 1..Len(flushes) :
             (FailedFast(f) /\ Settled(f)) =>
                 /\ flushes[f].pc = "rejected"
                 /\ \A i \in InvocationsOf(f) : invocations[i].state = "done")

\* A fail-fast flush has rejected; a message that was ready when it was called
\* is still ready, with a registered consumer that matches it and has room.
C7_Witness ==
    \E f \in 1..Len(flushes) :
        /\ FailedFast(f) /\ flushes[f].pc = "rejected"
        /\ \E k \in 1..Len(flushes[f].ready) :
               LET m == flushes[f].ready[k][1]
                   c == flushes[f].ready[k][2]
               IN  /\ m \in Range(sentMessages)
                   /\ messages[m].attempts = 0
                   /\ c \in Range(consumers)
                   /\ HasCapacity(Queue, c)

FailedOf(f) == { i \in InvocationsOf(f) : invocations[i].failed }

\* The sequence errors names every element of the set failed once
OneErrorEach(errors, failed) ==
    /\ Len(errors) = Cardinality(failed)
    /\ Range(errors) = failed

\* What a settled flush f returned
RejectsWithItsErrors(f) ==
    /\ flushes[f].pc = "rejected" <=> FailedOf(f) # {}
    /\ flushes[f].pc = "resolved" => flushes[f].rejection = NoRejection
    /\ (flushes[f].pc = "rejected" /\ flushes[f].captureErrors) =>
           /\ flushes[f].rejection.aggregate
           /\ OneErrorEach(flushes[f].rejection.errors, FailedOf(f))
    /\ (flushes[f].pc = "rejected" /\ ~flushes[f].captureErrors) =>
           /\ ~flushes[f].rejection.aggregate
           /\ flushes[f].rejection.errors = << flushes[f].errors[1] >>
           /\ flushes[f].errors[1] \in FailedOf(f)

\* C8: a flush rejects if and only if a handler invocation it dispatched
\* failed; with captureErrors the rejection is an aggregate of exactly one
\* error per failed invocation of the flush, without it the first recorded
\* error alone; and a publish step raises nothing: it touches no flush and no
\* invocation.
C8_RejectionCarriesErrors ==
    /\ [](\A f \in 1..Len(flushes) : Settled(f) => RejectsWithItsErrors(f))
    /\ [][messageCount' # messageCount =>
             flushes' = flushes /\ invocations' = invocations]_vars

\* A flush with captureErrors has rejected with the errors of two failed
\* invocations, a third invocation having succeeded.
C8_Witness ==
    \E f \in 1..Len(flushes) :
        /\ flushes[f].pc = "rejected" /\ flushes[f].captureErrors
        /\ Len(flushes[f].rejection.errors) = 2
        /\ InvocationsOf(f) \ FailedOf(f) # {}

\* A handler that has not been invoked yet can only stay so or be invoked
StaysScheduled ==
    \A i \in 1..Len(invocations) :
        invocations[i].state = "scheduled" =>
            /\ i <= Len(invocations')
            /\ invocations'[i].state \in { "scheduled", "running" }

\* C9: in a flush without fail-fast, a failed handler invocation prevents no
\* other invocation scheduled in the same dispatch pass, for the same or for
\* another message, from being invoked: none is cancelled, and when the flush
\* has settled all of them have been invoked.
C9_FailureIsolated ==
    /\ [][StaysScheduled]_vars
    /\ [](\A f \in 1..Len(flushes) :
             (Settled(f) /\ ~flushes[f].failFast) =>
                 \A i \in FailedOf(f), j \in InvocationsOf(f) :
                     invocations[j].pass = invocations[i].pass
                         => invocations[j].invoked)

\* A settled flush without fail-fast: an invocation failed, and a later one of
\* the same pass, for another message, was invoked and did not fail.
C9_Witness ==
    \E f \in 1..Len(flushes) :
        /\ Settled(f) /\ ~flushes[f].failFast
        /\ \E i \in FailedOf(f), j \in InvocationsOf(f) :
               /\ i < j
               /\ invocations[j].pass = invocations[i].pass
               /\ invocations[j].message # invocations[i].message
               /\ invocations[j].invoked /\ ~invocations[j].failed

\* What a publish step does: the stamped message is appended to the tail of
\* ready; no invocation is added or changed; in-flight, acked, the consumer
\* registry and the flushes are as before.
PublishOnlyAppends ==
    /\ messageCount' = messageCount + 1
    /\ Len(messages') = Len(messages) + 1
    /\ SubSeq(messages', 1, Len(messages)) = messages
    /\ messages'[Len(messages')].id = messageCount
    /\ messages'[Len(messages')].attempts = 0
    /\ ~messages'[Len(messages')].redelivered
    /\ sentMessages' = Append(sentMessages, Len(messages'))
    /\ UNCHANGED << invocations, inFlightRecords, receivedMessages, consumers,
                    consumerHeap, nextConsumerIndex, flushes >>

\* A step that hands messages to handlers is a dispatch pass of a flush, and
\* the messages were in ready before it.
DispatchedByFlush ==
    Dispatched # {} =>
        /\ messageCount' = messageCount
        /\ flushes' # flushes
        /\ \A j \in Dispatched :
               /\ invocations'[j].message \in Range(sentMessages)
               /\ invocations'[j].flush \in 1..Len(flushes')

IdsCountFromZero ==
    /\ messageCount = Len(messages) - epoch
    /\ \A h \in (epoch + 1)..Len(messages) : messages[h].id = h - epoch - 1

\* The id counter moves only by a publish, which hands out its value and adds
\* one, or by a clear, which sets it to 0; the id of a message never changes.
CounterSteps ==
    /\ \A h \in 1..Len(messages) : messages'[h].id = messages[h].id
    /\ messageCount' # messageCount =>
           \/ /\ messageCount' = messageCount + 1
              /\ Len(messages') = Len(messages) + 1
              /\ messages'[Len(messages')].id = messageCount
              /\ epoch' = epoch
           \/ /\ messageCount' = 0
              /\ epoch' = Len(messages)
              /\ sentMessages' = << >>
    /\ Len(messages') > Len(messages) => messageCount' = messageCount + 1

\* C11: the ids returned by successive publish calls are 0, 1, 2, ...,
\* strictly increasing whatever receiveMessage, ack, nack, flush, consume and
\* stop calls are interleaved, so no two messages published since the last
\* clear share an id; the counter restarts at 0 only by clear().
C11_IdsIncrease ==
    /\ []IdsCountFromZero
    /\ [][CounterSteps]_vars

\* A message was published and dispatched, the queue was cleared, and the
\* next message published got id 0 again.
C11_Witness ==
    /\ epoch = 1 /\ Len(messages) = 2
    /\ messages[1].id = 0 /\ messages[2].id = 0
    /\ messageCount = 1
    /\ Len(invocations) > 0

\* The position of the first in-flight record of a message with m's id
\* (0: the message is not in flight)
FirstRecordOf(m) ==
    IF \E r \in 1..Len(inFlightRecords) :
           messages[inFlightRecords[r].message].id = messages[m].id
    THEN CHOOSE r \in 1..Len(inFlightRecords) :
           /\ messages[inFlightRecords[r].message].id = messages[m].id
           /\ \A k \in 1..(r - 1) :
                  messages[inFlightRecords[k].message].id # messages[m].id
    ELSE 0

\* Consumer handle c is the registered consumer a record is attributed to
Owns(c, record) ==
    /\ record.consumerId # NoConsumer
    /\ c \in Range(consumers)
    /\ consumerHeap[c].id = record.consumerId

\* list without its first element that is a message with the id of m
WithoutFirst(list, m) ==
    IF \E i \in 1..Len(list) : messages[list[i]].id = messages[m].id
    THEN RemoveAt(list, CHOOSE i \in 1..Len(list) :
                            /\ messages[list[i]].id = messages[m].id
                            /\ \A k \in 1..(i - 1) :
                                   messages[list[k]].id # messages[m].id)
    ELSE list

\* What an ack of message m does when m is in flight
AckEffect(m) ==
    LET r == FirstRecordOf(m) IN
    /\ r # 0
    /\ inFlightRecords' = RemoveAt(inFlightRecords, r)
    /\ receivedMessages' = Append(receivedMessages, inFlightRecords[r].message)
    /\ consumerHeap' =
           [ c \in 1..Len(consumerHeap) |->
               IF Owns(c, inFlightRecords[r])
               THEN [consumerHeap[c] EXCEPT
                        !.acked = @ + 1,
                        !.inFlight = WithoutFirst(@, inFlightRecords[r].message)]
               ELSE consumerHeap[c] ]
    /\ UNCHANGED << sentMessages, messages, consumers, messageCount,
                    consumerCount, nextConsumerIndex, invocations, flushes >>

\* publish, receiveMessage(type, false), ack of the received message: the
\* counts of ready and in-flight are as before, acked has one more
RoundTrip(type) ==
    LET q1 == publish(Queue, type)
        q2 == receiveMessage(q1, type, FALSE)
        received == q2.inFlightRecords[Len(q2.inFlightRecords)].message
        q3 == ackWithConsumer(q2, received, NoConsumer)
    IN  /\ Len(q2.inFlightRecords) = Len(inFlightRecords) + 1
        /\ Len(q3.sentMessages) = Len(sentMessages)
        /\ Len(q3.inFlightRecords) = Len(inFlightRecords)
        /\ Len(q3.receivedMessages) = Len(receivedMessages) + 1

\* C12: an ack of a message that is in flight moves its in-flight record to
\* acked, leaves ready unchanged and adds one to the acked counter of the
\* consumer the record is attributed to, if any; publish, then
\* receiveMessage(type, false), then ack leaves ready and in-flight at their
\* counts (0 and 0 on an empty queue) and adds one to acked.
C12_AckMoves ==
    /\ [][\A m \in 1..Len(messages) : Ack(m) => AckEffect(m)]_vars
    /\ [](\A type \in MessageTypes : RoundTrip(type))

\* A message dispatched to a consumer without auto-ack was acked by ack():
\* it is in acked, the consumer holds nothing and counts one ack.
C12_Witness ==
    \E c \in 1..Len(consumerHeap) :
        /\ ~consumerHeap[c].autoAck
        /\ consumerHeap[c].acked = 1
        /\ consumerHeap[c].inFlight = << >>
        /\ Len(receivedMessages) = 1
        /\ calls = 1

\* ack(m) applied to the queue q
AckOf(q, m) == ackWithConsumer(q, m, NoConsumer)

\* C13: ack is idempotent: in every reachable state and for every message m,
\* ack(m) followed by ack(m) leaves what a single ack(m) leaves, and an ack
\* of a message that is still ready or already acked changes nothing.
C13_AckIdempotent ==
    \A m \in 1..Len(messages) :
        /\ AckOf(AckOf(Queue, m), m) = AckOf(Queue, m)
        /\ (m \in Range(sentMessages) \/ m \in Range(receivedMessages))
               => AckOf(Queue, m) = Queue

\* What a nack of message m does when m is in flight
NackEffect(m) ==
    LET r == FirstRecordOf(m) IN
    /\ r # 0
    /\ inFlightRecords' = RemoveAt(inFlightRecords, r)
    /\ sentMessages' = Append(sentMessages, inFlightRecords[r].message)
    /\ messages' = [messages EXCEPT
                        ![inFlightRecords[r].message].attempts = @ + 1,
                        ![inFlightRecords[r].message].redelivered = TRUE]
    /\ consumerHeap' =
           [ c \in 1..Len(consumerHeap) |->
               IF Owns(c, inFlightRecords[r])
               THEN [consumerHeap[c] EXCEPT
                        !.nacked = @ + 1,
                        !.inFlight = WithoutFirst(@, inFlightRecords[r].message)]
               ELSE consumerHeap[c] ]
    /\ UNCHANGED << receivedMessages, consumers, messageCount, consumerCount,
                    nextConsumerIndex, invocations, flushes >>

\* C14: a nack of a message that is in flight adds one to its attempts, sets
\* redelivered, removes its in-flight record, appends the message to the
\* tail of ready and adds one to the nacked counter of the consumer the
\* record is attributed to, if any; a nack of a message that is not in
\* flight changes nothing.
C14_NackRequeues ==
    /\ [][\A m \in 1..Len(messages) : Nack(m) => NackEffect(m)]_vars
    /\ [](\A m \in 1..Len(messages) :
             FirstRecordOf(m) = 0 => nackWithConsumer(Queue, m, NoConsumer) = Queue)

\* A message dispatched to a consumer without auto-ack was nacked: it is the
\* last of ready again, with one attempt, behind a message published before
\* the nack.
C14_Witness ==
    \E c \in 1..Len(consumerHeap) :
        /\ ~consumerHeap[c].autoAck
        /\ consumerHeap[c].nacked = 1
        /\ Len(sentMessages) = 2
        /\ messages[sentMessages[2]].attempts = 1
        /\ messages[sentMessages[2]].redelivered
        /\ messages[sentMessages[1]].attempts = 0

\* What stop({ requeueInFlight: true }) of consumer c does
StopRequeueEffect(c) ==
    LET held == consumerHeap[c].inFlight IN
    /\ sentMessages' = sentMessages \o held
    /\ messages' =
           [ m \in 1..Len(messages) |->
               IF m \in Range(held)
               THEN [messages[m] EXCEPT !.attempts = @ + 1, !.redelivered = TRUE]
               ELSE messages[m] ]
    /\ \A r \in 1..Len(inFlightRecords') :
           inFlightRecords'[r].consumerId # consumerHeap[c].id
    /\ inFlightRecords' =
           Filter(inFlightRecords,
                  LAMBDA record : record.consumerId # consumerHeap[c].id)
    /\ consumerHeap' = [consumerHeap EXCEPT ![c].inFlight = << >>,
                                            ![c].stopped = TRUE]
    /\ c \notin Range(consumers')
    /\ UNCHANGED << receivedMessages, messageCount, consumerCount,
                    invocations, flushes, dropped >>

\* C15: stop() with requeueInFlight true of a consume-created consumer puts
\* every message in flight under it at the tail of ready with one more
\* attempt and redelivered set, leaves no in-flight record attributed to it,
\* and leaves the records of other consumers and the unattributed records as
\* they are.
C15_StopRequeues ==
    [][\A c \in 1..Len(consumerHeap) :
          (~consumerHeap[c].bySubscribe /\ Stop(c, TRUE)) => StopRequeueEffect(c)]_vars

\* A consume-created consumer that held a message was stopped: the message is
\* ready again with one attempt, and another consumer's record is still there.
C15_Witness ==
    \E c \in 1..Len(consumerHeap) :
        /\ consumerHeap[c].stopped /\ ~consumerHeap[c].bySubscribe
        /\ consumerHeap[c].delivered = 1
        /\ consumerHeap[c].nacked = 0 /\ consumerHeap[c].acked = 0
        /\ \E i \in 1..Len(sentMessages) : messages[sentMessages[i]].attempts = 1
        /\ Len(inFlightRecords) > 0
        /\ dropped = {}

\* The requeueInFlight values a stop of consumer c can be called with:
\* false by the unsubscribe function of subscribe, either by stop() of consume
StopChoices(c) == IF consumerHeap[c].bySubscribe THEN { FALSE } ELSE BOOLEAN

\* A second stop of consumer c leaves what the first one left
StopTwice(c) ==
    \A first, second \in StopChoices(c) :
        stopConsumer(stopConsumer(Queue, c, first), c, second)
            = stopConsumer(Queue, c, first)

\* C16: the unsubscribe function of subscribe and the stop of a consume handle
\* are idempotent: a second call leaves the state the first call left, a call
\* on a stopped consumer changes nothing, and a stopped consumer's handler is
\* given no message dispatched afterwards.
C16_StopIdempotent ==
    /\ [](\A c \in 1..Len(consumerHeap) :
             /\ StopTwice(c)
             /\ consumerHeap[c].stopped =>
                    \A again \in StopChoices(c) : stopConsumer(Queue, c, again) = Queue)
    /\ [][\A j \in Dispatched : ~consumerHeap[invocations'[j].consumer].stopped]_vars

\* A subscriber that held a message was unsubscribed; a flush has settled, a
\* message is ready, and the handler was not invoked again.
C16_Witness ==
    \E c \in 1..Len(consumerHeap) :
        /\ consumerHeap[c].stopped /\ consumerHeap[c].bySubscribe
        /\ consumerHeap[c].delivered = 1
        /\ \E f \in 1..Len(flushes) : Settled(f)
        /\ \E i \in 1..Len(sentMessages) : messages[sentMessages[i]].attempts = 0
        /\ consumers = << >>

\* ------------------------------------------------------------------ C17
\* The ready message a receiveMessage(type) is to take: the earliest whose
\* type equals the requested one, the earliest of all when the type is omitted
\* (0 when there is none)
EarliestOfType(type) ==
    IF type = Undefined
    THEN IF Len(sentMessages) > 0 THEN 1 ELSE 0
    ELSE FindIndex(sentMessages, LAMBDA m : messages[m].type = type)

\* What a receiveMessage(type, autoAck) that returned a message has done
ReceiveEffect(type, autoAck) ==
    \E i \in { EarliestOfType(type) } :
        /\ i # 0
        /\ sentMessages' = RemoveAt(sentMessages, i)
        /\ IF autoAck
           THEN /\ receivedMessages' = Append(receivedMessages, sentMessages[i])
                /\ inFlightRecords' = inFlightRecords
           ELSE /\ inFlightRecords' =
                       Append(inFlightRecords,
                              [message |-> sentMessages[i], consumerId |-> NoConsumer])
                /\ receivedMessages' = receivedMessages

ReceivesEarliestOf(types) ==
    \A type \in types, autoAck \in BOOLEAN :
        ReceiveMessage(type, autoAck) => ReceiveEffect(type, autoAck)

\* C17: receiveMessage(type, autoAck) removes the earliest ready message whose
\* type equals type (the earliest ready message of any type when type is
\* omitted), appends it to the acked list when autoAck is true and to the
\* in-flight list with no attributed consumer when false, and keeps the order
\* of the remaining ready messages.
C17_ReceiveTakesEarliestOfType == [][ReceivesEarliestOf(TypeChoices)]_vars

\* The same for every requested type but the empty string
C17_ReceiveTakesEarliestOfNonEmptyType ==
    [][ReceivesEarliestOf(TypeChoices \ {""})]_vars

\* A message of the requested type was taken past an earlier ready message of
\* another type, which stays ready
C17_TakenPastAnother ==
    /\ calls = 1
    /\ Len(messages) = 2
    /\ messages[1].type = "" /\ messages[2].type = "work"
    /\ sentMessages = << 1 >>
    /\ inFlightRecords = << [message |-> 2, consumerId |-> NoConsumer] >>

\* ------------------------------------------------------------------ C18
\* No ready message is of the requested type (none is ready when it is omitted)
NoReadyMatch(type) == EarliestOfType(type) = 0

\* A receiveMessage for a type in `types` that finds no match changes nothing:
\* the lists, the registry and the consumers stay as they are (the id counter
\* is not the call's to write)
NoMatchNoChange(types) ==
    \A type \in types, autoAck \in BOOLEAN :
        NoReadyMatch(type) => receiveMessage(Queue, type, autoAck) = Queue

\* C18: when no ready message matches (empty queue, or no ready message of the
\* requested type), receiveMessage returns nothing and leaves ready, in-flight,
\* acked, the id counter and the consumer registry unchanged.
C18_NoMatchNoChange == NoMatchNoChange(TypeChoices)

\* The same for every requested type but the empty string
C18_NoMatchNoChangeNonEmptyType == NoMatchNoChange(TypeChoices \ {""})

\* ------------------------------------------------------------------ C19
\* Consumer c is not stopped and is registered for the type of message m, or
\* is a catch-all; an untyped message is for catch-alls only
Matches(heap, allMessages, c, m) ==
    /\ ~heap[c].stopped
    /\ IF allMessages[m].type = Undefined
       THEN heap[c].messageType = Undefined
       ELSE heap[c].messageType \in { allMessages[m].type, Undefined }

\* The candidates for a ready message are the registered consumers matching it
CandidatesAreTheMatching ==
    \A i \in 1..Len(sentMessages) :
        Range(getConsumersForMessage(Queue, sentMessages[i]))
            = { c \in Range(consumers) :
                    Matches(consumerHeap, messages, c, sentMessages[i]) }

\* The invocations a step adds for consumer c and message m
DispatchedTo(c, m) ==
    { j \in Dispatched :
          invocations'[j].consumer = c /\ invocations'[j].message = m }

DispatchedMessages == { invocations'[j].message : j \in Dispatched }

\* A step's dispatches go to registered consumers matching the message, at
\* most once each; in broadcast mode to every one of them; in competing mode
\* to one.
DispatchFollowsMatching ==
    /\ \A j \in Dispatched :
           /\ invocations'[j].consumer \in Range(consumers)
           /\ Matches(consumerHeap, messages,
                      invocations'[j].consumer, invocations'[j].message)
    /\ \A m \in DispatchedMessages, c \in Range(consumers) :
           /\ Cardinality(DispatchedTo(c, m)) <= 1
           /\ (deliveryMode = "broadcast" /\ Matches(consumerHeap, messages, c, m))
                  => Cardinality(DispatchedTo(c, m)) = 1
    /\ deliveryMode = "competing" =>
           \A m \in DispatchedMessages :
               Cardinality({ j \in Dispatched : invocations'[j].message = m }) = 1

\* C19: a typed message is matched by every non-stopped consumer whose
\* messageType equals its type and by every non-stopped catch-all consumer; an
\* untyped message is matched only by catch-all consumers, each exactly once;
\* a consumer registered for another type is never invoked for the message.
C19_ConsumerMatching ==
    []CandidatesAreTheMatching /\ [][DispatchFollowsMatching]_vars

\* In broadcast mode a catch-all consumer was handed a typed message and an
\* untyped one, once each, and a consumer of another type, registered before
\* the flush, was handed nothing.
C19_Witness ==
    /\ deliveryMode = "broadcast"
    /\ Len(consumerHeap) = 2 /\ Len(messages) = 2
    /\ consumerHeap[1].messageType = Undefined
    /\ consumerHeap[2].messageType = "other"
    /\ messages[1].type = "work" /\ messages[2].type = Undefined
    /\ consumers = << 1, 2 >>
    /\ consumerHeap[1].delivered = 2 /\ consumerHeap[2].delivered = 0
    /\ Len(invocations) = 2
    /\ \A j \in 1..2 : invocations[j].consumer = 1 /\ invocations[j].invoked
    /\ \E f \in 1..Len(flushes) : Settled(f) /\ flushes[f].startedAt = 2

\* ------------------------------------------------------------------ C20
\* Consumers a and b are registered for the same type, not stopped, and have
\* an unbounded prefetch: each has spare capacity at every delivery
AlwaysAvailable(a, b) ==
    /\ a # b
    /\ consumerHeap[a].messageType = consumerHeap[b].messageType
    /\ ~consumerHeap[a].stopped /\ ~consumerHeap[b].stopped
    /\ consumerHeap[a].prefetch = POSITIVE_INFINITY
    /\ consumerHeap[b].prefetch = POSITIVE_INFINITY

\* C20: competing-mode selection is a fair round-robin per message type: two
\* matching consumers that both had spare capacity at every delivery of the
\* type (here: registered before the first flush, never stopped, unbounded
\* prefetch) have received numbers of deliveries that differ by at most one,
\* even when another consumer of the type was saturated or freed in between.
C20_FairRotation ==
    \A a, b \in Range(consumers) :
        AlwaysAvailable(a, b) =>
            consumerHeap[a].delivered - consumerHeap[b].delivered \in { -1, 0, 1 }

\* ------------------------------------------------------------------ C21
\* The step settles invocation i: its handler returns or throws, or the
\* callbacks chained on it run
Settles(i) ==
    /\ invocations[i].state \in { "running", "caught" }
    /\ invocations'[i].state # invocations[i].state

\* The settlement of a handler of a consumer without autoAck leaves the lists,
\* the messages, the consumers and the counters as they are
ManualSettlementChangesNothing ==
    \A i \in 1..Len(invocations) :
        (Settles(i) /\ ~consumerHeap[invocations[i].consumer].autoAck) =>
            UNCHANGED << messages, consumerHeap, sentMessages, inFlightRecords,
                         receivedMessages, consumers, messageCount,
                         consumerCount, nextConsumerIndex >>

\* The number of records of message m under the consumer id in records
HeldCount(records, consumerId, m) ==
    Cardinality({ r \in 1..Len(records) :
                      records[r].consumerId = consumerId /\ records[r].message = m })

\* A record held by a consumer without autoAck leaves in-flight only by an
\* ack or a nack of its message or by the stop of the consumer, and the ack of
\* a message held by that consumer alone adds one to its acked counter
ManualRecordLeavesByCall ==
    \A c \in 1..Len(consumerHeap), m \in 1..Len(messages) :
        ~consumerHeap[c].autoAck =>
            /\ HeldCount(inFlightRecords', consumerHeap[c].id, m)
                   < HeldCount(inFlightRecords, consumerHeap[c].id, m)
                 => \/ Ack(m)
                    \/ Nack(m)
                    \/ \E requeueInFlight \in BOOLEAN : Stop(c, requeueInFlight)
            /\ ( /\ Ack(m)
                 /\ HeldIn(inFlightRecords, consumerHeap[c].id, m)
                 /\ \A r \in 1..Len(inFlightRecords) :
                        inFlightRecords[r].message = m
                            => inFlightRecords[r].consumerId = consumerHeap[c].id )
                 => consumerHeap'[c].acked = consumerHeap[c].acked + 1

\* What a consumer without autoAck holds is counted by its stats().inFlight
ManualHeldIsCounted ==
    \A r \in 1..Len(inFlightRecords), c \in 1..Len(consumerHeap) :
        ( /\ ~consumerHeap[c].autoAck
          /\ inFlightRecords[r].consumerId = consumerHeap[c].id )
            => \E k \in 1..Len(consumerHeap[c].inFlight) :
                   consumerHeap[c].inFlight[k] = inFlightRecords[r].message

\* C21: for a consumer with autoAck false, settlement of its handler changes
\* no list and no counter: the delivered message stays in flight under that
\* consumer, counted by inFlightCount and stats().inFlight, until ack or nack
\* is called for it or the consumer is stopped, and after ack stats().acked is
\* one higher.
C21_ManualAckStaysInFlight ==
    /\ []ManualHeldIsCounted
    /\ [][ManualSettlementChangesNothing /\ ManualRecordLeavesByCall]_vars

\* The handler of a consumer without autoAck has settled and the flush has
\* resolved; the message is still in flight under the consumer, none is ready
C21_Witness ==
    \E i \in 1..Len(invocations) :
        /\ invocations[i].state = "done"
        /\ ~consumerHeap[invocations[i].consumer].autoAck
        /\ HeldIn(inFlightRecords, consumerHeap[invocations[i].consumer].id,
                  invocations[i].message)
        /\ consumerHeap[invocations[i].consumer].inFlight
               = << invocations[i].message >>
        /\ sentMessages = << >> /\ receivedMessages = << >>
        /\ flushes[invocations[i].flush].pc = "resolved"

\* ------------------------------------------------------------------ C22
\* The three lists and the registry of queue q
ListsOf(q) ==
    << q.sentMessages, q.inFlightRecords, q.receivedMessages, q.consumers >>

\* On the queue just cleared, the calls a holder of a handle or of a message
\* from before the clear can make: stop or unsubscribe, ack, nack
StaleCallsAfterClear ==
    UNION { { stopConsumer(clear(Queue), c, requeueInFlight) :
                  requeueInFlight \in StopChoices(c) } :
            c \in 1..Len(consumerHeap) }
    \cup { ackWithConsumer(clear(Queue), m, NoConsumer) : m \in 1..Len(messages) }
    \cup { nackWithConsumer(clear(Queue), m, NoConsumer) : m \in 1..Len(messages) }

\* C22: after clear() the queue is equivalent to a freshly constructed one:
\* a call on a stop/unsubscribe handle, or an ack or nack of a message, obtained
\* before the clear has no effect on it; the ready, in-flight and acked lists
\* and the registry stay empty as on the fresh queue.
C22_ClearIsFresh ==
    \A q \in StaleCallsAfterClear : ListsOf(q) = << << >>, << >>, << >>, << >> >>

\* ------------------------------------------------------------------ C23
\* The prefetch of `halves` halves is a positive integer
IsPositiveInteger(halves) == halves > 0 /\ halves % 2 = 0

\* C23: consume with a prefetch that is not a positive integer (zero, negative
\* or non-integral) fails at the call: no step of the queue is a consume with
\* such a prefetch, so no consumer is registered and no consumer id is used.
C23_InvalidPrefetchFails ==
    [][\A halves \in PrefetchHalves, autoAck \in BOOLEAN :
           ConsumeHalves(MaxConsumers, "work", halves, autoAck)
               => IsPositiveInteger(halves)]_vars

\* The same for the prefetch values that are not positive
C23_NonPositivePrefetchFails ==
    [][\A halves \in PrefetchHalves, autoAck \in BOOLEAN :
           ConsumeHalves(MaxConsumers, "work", halves, autoAck) => halves > 0]_vars

\* ------------------------------------------------------------------ C24
\* A caller writes to a message record of a snapshot it took
WritesToSnapshot ==
    \E i \in 1..MaxMessages, type \in { "work", "other" },
       attempts \in 0..MaxAttempts : SnapshotWrite(i, type, attempts)

\* C24: the value returned by getQueue() in snapshot mode is isolated from the
\* queue: a write to the returned lists or to the message records in them
\* (attempts or type of a ready message) changes nothing of what the queue
\* reports, delivers or requeues: its messages and lists stay as they were.
C24_SnapshotIsolated ==
    [][WritesToSnapshot => UNCHANGED << messages, sentMessages, inFlightRecords,
                                        receivedMessages, consumerHeap >>]_vars

\* ------------------------------------------------------------------ C25
\* The name is a string that is not empty, has at most 255 characters and no
\* space
ValidName(n) ==
    n.kind = "string" /\ n.length > 0 /\ n.length <= NameLimit /\ ~n.space

\* The queue as the constructor leaves it
FreshlyConstructed ==
    /\ sentMessages = << >> /\ inFlightRecords = << >> /\ receivedMessages = << >>
    /\ consumers = << >> /\ messageCount = 0 /\ consumerCount = 0

\* C25: constructing a queue fails exactly when the name is empty or not a
\* string, longer than 255 characters, or contains a space; every other name
\* (one of exactly 255 characters included) constructs a queue with empty
\* lists, no consumers and id counter 0.
C25_NameValidation ==
    /\ \A n \in NameChoices : constructorThrows(n) <=> ~ValidName(n)
    /\ ValidName(name)
    /\ (messages = << >> /\ consumerHeap = << >> /\ flushes = << >>)
           => FreshlyConstructed

\* The same for the names that are strings
C25_StringNameValidation ==
    /\ \A n \in NameChoices :
           n.kind = "string" => (constructorThrows(n) <=> ~ValidName(n))
    /\ name.kind = "string" => ValidName(name)

\* ------------------------------------------------------------------ C26
\* The polls of waiter w before its last one
EarlierPolls(w) == 1..(Len(waiters[w].polls) - 1)

\* A waiter that has resolved did so at the first tick at which the predicate
\* held; one that has rejected found the predicate false at every tick, the
\* last of which is the first with more than timeoutMs elapsed; one that
\* still polls has found it false within the timeout.
SettledAtTheRightTick(w) ==
    LET polls == waiters[w].polls
        last == polls[Len(polls)]
    IN  /\ \A k \in EarlierPolls(w) :
               ~polls[k].holds /\ polls[k].at <= waiters[w].timeoutMs
        /\ waiters[w].state = "resolved" => Len(polls) > 0 /\ last.holds
        /\ waiters[w].state = "rejected" =>
               Len(polls) > 0 /\ ~last.holds /\ last.at > waiters[w].timeoutMs
        /\ (waiters[w].state = "polling" /\ Len(polls) > 0) =>
               ~last.holds /\ last.at <= waiters[w].timeoutMs

\* A settled waiter stays as it settled: no further poll
SettledOnce ==
    \A w \in 1..Len(waiters) :
        waiters[w].state # "polling" => waiters'[w] = waiters[w]

\* C26: waitFor resolves at the first poll tick at which the predicate is true
\* and rejects with a timeout only if the predicate was false at every poll
\* tick up to the one where the elapsed time first exceeds timeoutMs; it
\* settles exactly once and polls no more after settling.
C26_WaitForSettlesAtFirstTrueTick ==
    /\ [](\A w \in 1..Len(waiters) : SettledAtTheRightTick(w))
    /\ [][SettledOnce]_vars

\* A waiter resolved at a tick later than its timeout, after a tick at which
\* the predicate was false; the predicate is false again since
C26_Witness ==
    \E w \in 1..Len(waiters) :
        /\ waiters[w].state = "resolved"
        /\ Len(waiters[w].polls) = 3
        /\ waiters[w].elapsed > waiters[w].timeoutMs
        /\ ~Holds(waiters[w].predicate)

\* ------------------------------------------------------------------ C27
\* C27: flush terminates: provided every handler invocation eventually
\* settles, every flush call eventually settles (resolves or rejects),
\* whatever the handlers do, handlers that nack their message included.
C27_FlushTerminates ==
    \A f \in 1..MaxFlushes :
        (Len(flushes) >= f) ~> (Len(flushes) >= f /\ Settled(f))

\* The same for behaviours in which the handlers nack only finitely often
C27_TerminatesWhenNacksCease ==
    (<>[][\A i \in 1..Len(invocations) : ~HandlerNacks(i)]_vars)
        => C27_FlushTerminates

\* ------------------------------------------------------------------ C28
\* A ready message that a dispatch pass would deliver: it has matching
\* consumers and, in broadcast mode, every one of them has capacity, or, in
\* competing mode, one of them has
Dispatchable(q, message) ==
    LET matching == getConsumersForMessage(q, message) IN
    /\ Len(matching) > 0
    /\ IF deliveryMode = "broadcast" THEN CanDeliver(q, matching)
       ELSE \E i \in 1..Len(matching) : HasCapacity(q, matching[i])

NothingDispatchable ==
    \A k \in 1..Len(sentMessages) : ~Dispatchable(Queue, sentMessages[k])

\* The step in which flush f leaves its dispatch loop for the last await,
\* after which it dispatches nothing and settles
LeavesLoop(f) ==
    /\ f \in 1..Len(flushes')
    /\ flushes'[f].pc = "awaitFinal"
    /\ f \in 1..Len(flushes) => flushes[f].pc # "awaitFinal"

\* C28: unless fail-fast is active, a flush that is done dispatching and goes
\* on to settle leaves no dispatchable message in ready: every ready message
\* has no matching consumer, or a saturated matching consumer (broadcast), or
\* only saturated matching consumers (competing); whether or not handlers
\* failed and whatever the captureErrors setting.
C28_NothingDispatchableLeft ==
    [][\A f \in 1..Len(flushes') :
          LeavesLoop(f) /\ ~flushes'[f].failFast => NothingDispatchable']_vars

\* The same for the flushes that capture errors or saw no handler fail
C28_NothingLeftWhenCapturing ==
    [][\A f \in 1..Len(flushes') :
          /\ LeavesLoop(f)
          /\ ~flushes'[f].failFast
          /\ flushes'[f].captureErrors \/ Len(flushes'[f].errors) = 0
          => NothingDispatchable']_vars

\* ------------------------------------------------------------------ C29
\* The step runs the callback that ends the promise chain of invocation i,
\* after its handler fulfilled or failed
Completes(i) ==
    /\ invocations[i].state \in { "running", "caught" }
    /\ invocations'[i].state = "done"

\* The position of the first record of records owned by consumerId that holds m
FirstHeld(records, consumerId, m) ==
    CHOOSE r \in 1..Len(records) :
        /\ records[r].consumerId = consumerId /\ records[r].message = m
        /\ \A k \in 1..(r - 1) :
               ~(records[k].consumerId = consumerId /\ records[k].message = m)

\* The record of m under consumer c leaves in-flight, m joins acked and c's
\* acked counter grows by one; nothing else of the queue changes
MovedToAcked(c, m) ==
    /\ inFlightRecords' = RemoveAt(inFlightRecords,
                              FirstHeld(inFlightRecords, consumerHeap[c].id, m))
    /\ receivedMessages' = Append(receivedMessages, m)
    /\ consumerHeap' = [consumerHeap EXCEPT
                            ![c].acked = @ + 1,
                            ![c].inFlight = WithoutFirst(@, m)]
    /\ UNCHANGED << messages, sentMessages, consumers, messageCount,
                    consumerCount, nextConsumerIndex >>

QueueUnchanged ==
    UNCHANGED << messages, consumerHeap, sentMessages, inFlightRecords,
                 receivedMessages, consumers, messageCount, consumerCount,
                 nextConsumerIndex >>

\* C29: when a handler invocation of an autoAck consumer settles, fulfilled
\* or failed, the message moves from in-flight to acked and the consumer's
\* acked counter grows by one if the message is still in flight under that
\* consumer; when it no longer is (acked, nacked, consumer stopped) the
\* settlement changes nothing.
C29_AutoAckOnSettlement ==
    [][\A i \in 1..Len(invocations) :
          LET c == invocations[i].consumer
              m == invocations[i].message
          IN  (Completes(i) /\ consumerHeap[c].autoAck) =>
                  IF HeldIn(inFlightRecords, consumerHeap[c].id, m)
                  THEN MovedToAcked(c, m)
                  ELSE QueueUnchanged]_vars

\* Two settled invocations of autoAck consumers: a failed one whose message
\* was acknowledged by its settlement, and one whose message had left
\* in-flight before, so that its consumer acknowledged nothing
C29_Witness ==
    \E i, j \in 1..Len(invocations) :
        /\ invocations[i].state = "done" /\ invocations[j].state = "done"
        /\ invocations[i].failed
        /\ consumerHeap[invocations[i].consumer].autoAck
        /\ consumerHeap[invocations[j].consumer].autoAck
        /\ consumerHeap[invocations[i].consumer].acked = 1
        /\ invocations[i].message \in Range(receivedMessages)
        /\ consumerHeap[invocations[j].consumer].acked = 0

\* ------------------------------------------------------------------ C30
\* Consumer c holds as many messages as its prefetch allows, or more
Saturated(c) ==
    /\ consumerHeap[c].prefetch # POSITIVE_INFINITY
    /\ Len(consumerHeap[c].inFlight) >= consumerHeap[c].prefetch

\* The number of invocations the step adds before invocation d for consumer c
GivenBefore(d, c) ==
    Cardinality({ k \in Dispatched : k < d /\ invocations'[k].consumer = c })

\* The number of entries of list that are the message m
EntriesOf(list, m) == Cardinality({ k \in 1..Len(list) : list[k] = m })

\* The deliveries a step makes: the first of the invocations of each
Deliveries == { invocations'[j].delivery : j \in Dispatched }

RECURSIVE IsSubsequence(_, _)

\* The list a is the list b with some of its entries left out
IsSubsequence(a, b) ==
    IF a = << >> THEN TRUE
    ELSE IF b = << >> THEN FALSE
    ELSE IF Head(a) = Head(b) THEN IsSubsequence(Tail(a), Tail(b))
    ELSE IsSubsequence(a, Tail(b))

\* Delivery d of a step takes a ready message whose matching consumers all
\* hold less than their prefetch, counting what the step gave them before,
\* and gives it to all of them in registration order: for each an invocation
\* of its handler, an in-flight record and an entry of its in-flight list
DeliveredToAll(d) ==
    LET m == invocations'[d].message
        matching == getConsumersForMessage(Queue, m)
    IN  /\ m \in Range(sentMessages)
        /\ Len(matching) > 0
        /\ { j \in Dispatched : invocations'[j].delivery = d }
               = d..(d + Len(matching) - 1)
        /\ \A p \in 1..Len(matching) :
               LET c == matching[p] IN
               /\ invocations'[d + p - 1].consumer = c
               /\ invocations'[d + p - 1].message = m
               /\ \/ consumerHeap[c].prefetch = POSITIVE_INFINITY
                  \/ Len(consumerHeap[c].inFlight) + GivenBefore(d, c)
                         < consumerHeap[c].prefetch
               /\ HeldCount(inFlightRecords', consumerHeap[c].id, m)
                      > HeldCount(inFlightRecords, consumerHeap[c].id, m)
               /\ EntriesOf(consumerHeap'[c].inFlight, m)
                      > EntriesOf(consumerHeap[c].inFlight, m)

\* A ready message one of whose matching consumers is saturated stays in
\* ready and is given to nobody
SaturatedKeepsInReady ==
    \A k \in 1..Len(sentMessages) :
        LET m == sentMessages[k]
            matching == getConsumersForMessage(Queue, m)
        IN  (\E p \in 1..Len(matching) : Saturated(matching[p])) =>
                /\ \A j \in Dispatched : invocations'[j].message # m
                /\ EntriesOf(sentMessages', m) = EntriesOf(sentMessages, m)

\* What a dispatching step leaves in ready is what was there, in its order,
\* less one entry for each delivery
ReadyKeepsPositions ==
    /\ IsSubsequence(sentMessages', sentMessages)
    /\ Len(sentMessages') = Len(sentMessages) - Cardinality(Deliveries)

\* C30: broadcast delivery is all-or-nothing: a ready message is dispatched
\* only when every matching consumer holds less than its prefetch, and is then
\* recorded in flight under, and handed to, all of them in the same step; if
\* a matching consumer is saturated the message stays in ready in its position
\* and no matching consumer receives it.
C30_BroadcastAllOrNothing ==
    [][(deliveryMode = "broadcast" /\ Dispatched # {}) =>
          /\ \A d \in Deliveries : DeliveredToAll(d)
          /\ SaturatedKeepsInReady
          /\ ReadyKeepsPositions]_vars

\* A broadcast queue after a dispatch: message m went to two consumers, which
\* both hold it; message n stayed in ready and was given to nobody, because
\* one of its two matching consumers is saturated, though the other is not
C30_Witness ==
    /\ deliveryMode = "broadcast"
    /\ \E m, n \in 1..Len(messages), a, b \in Range(consumers) :
        /\ m # n /\ a # b
        /\ HeldIn(inFlightRecords, consumerHeap[a].id, m)
        /\ HeldIn(inFlightRecords, consumerHeap[b].id, m)
        /\ \E i, j \in 1..Len(invocations) :
               /\ invocations[i].delivery = invocations[j].delivery
               /\ invocations[i].consumer = a /\ invocations[j].consumer = b
        /\ n \in Range(sentMessages)
        /\ \A i \in 1..Len(invocations) : invocations[i].message # n
        /\ getConsumersForMessage(Queue, n) = << a, b >>
        /\ Saturated(a) /\ ~Saturated(b)

\* ------------------------------------------------------------------ C31
\* Message a was published before message b, with the same type, and both
\* wait in ready without ever having been requeued
WaitInOrder(a, b) ==
    /\ a \in Range(sentMessages) /\ b \in Range(sentMessages)
    /\ messages[a].type = messages[b].type
    /\ messages[a].id < messages[b].id
    /\ ~messages[a].redelivered /\ ~messages[b].redelivered

\* The step hands message a to a handler before it hands b to one
HandedOutBefore(a, b) ==
    \E i \in Dispatched :
        /\ invocations'[i].message = a
        /\ \A j \in Dispatched : invocations'[j].message = b => i < j

\* C31: no overtaking within a type: of two messages of the same type that
\* wait in ready and were never requeued, the later-published one is taken out
\* of ready (by a dispatch pass of flush or by receiveMessage) only in a step
\* that takes the earlier-published one first, so the earlier one is never
\* dispatched after the later one; in either delivery mode, and in passes that
\* skip messages for lack of capacity.
C31_NoOvertaking ==
    [][\A a, b \in 1..Len(messages) :
          (WaitInOrder(a, b) /\ b \notin Range(sentMessages')) =>
              /\ a \notin Range(sentMessages')
              /\ Dispatched # {} /\ HandedOutBefore(a, b)]_vars

\* A consumer with prefetch 1 was handed two messages never requeued, the
\* earlier-published one first, in two dispatch passes: the first pass skipped
\* the later one for lack of capacity
C31_Witness ==
    \E i, j \in 1..Len(invocations) :
        /\ i < j
        /\ invocations[i].consumer = invocations[j].consumer
        /\ consumerHeap[invocations[i].consumer].prefetch = 1
        /\ invocations[i].pass # invocations[j].pass
        /\ messages[invocations[i].message].id < messages[invocations[j].message].id
        /\ ~messages[invocations[i].message].redelivered
        /\ ~messages[invocations[j].message].redelivered

\* ------------------------------------------------------------------ C32
\* The step invokes the handler of invocation i
Invokes(i) ==
    /\ invocations[i].state = "scheduled"
    /\ invocations'[i].state = "running"

\* No step hands a message to a stopped consumer
NoDispatchToStopped ==
    \A j \in Dispatched : ~consumerHeap[invocations'[j].consumer].stopped

\* A step of a flush leaves in ready, and hands to nobody, every message that
\* no registered consumer matches
UnmatchedStaysReady ==
    \A m \in Range(sentMessages) :
        getConsumersForMessage(Queue, m) = << >> =>
            /\ \A j \in Dispatched : invocations'[j].message # m
            /\ flushes' # flushes =>
                   EntriesOf(sentMessages', m) = EntriesOf(sentMessages, m)

\* C32 as stated: once stop()/unsubscribe() of a consumer has returned, its
\* handler is never invoked again for any message, later dispatch passes of a
\* flush in progress included, and the messages only it matched stay in ready.
C32_NeverInvokedAfterStop ==
    [][/\ \A i \in 1..Len(invocations) :
              Invokes(i) => ~consumerHeap[invocations[i].consumer].stopped
       /\ NoDispatchToStopped
       /\ UnmatchedStaysReady]_vars

\* C32 amended: once stop()/unsubscribe() of a consumer has returned, no
\* dispatch pass hands a message to that consumer, the later passes of a flush
\* in progress included, and the messages only it matched stay in ready; the
\* handler calls for messages dispatched to it before the stop still happen.
C32_NeverDispatchedAfterStop ==
    [][NoDispatchToStopped /\ UnmatchedStaysReady]_vars

\* A flush that was in progress when the only consumer was stopped has
\* settled without a failure: the consumer was handed one message, and a
\* message that was ready when the flush was called was never handed to
\* anybody and is left in ready
C32_Witness ==
    \E c \in 1..Len(consumerHeap), f \in 1..Len(flushes), m \in Range(sentMessages) :
        /\ consumerHeap[c].stopped /\ consumers = << >>
        /\ Len(consumerHeap) = 1
        /\ consumerHeap[c].delivered = 1
        /\ Settled(f) /\ ~flushes[f].stopDispatch
        /\ ~messages[m].redelivered
        /\ messages[m].id <= flushes[f].startedAt
        /\ \A i \in 1..Len(invocations) :
               invocations[i].message # m /\ invocations[i].flush = f

\* ------------------------------------------------------------------ C33
\* C33: after unsubscribe() or stop({requeueInFlight: false}) every message
\* that was in flight under the consumer is in none of ready, in-flight and
\* acked, and never enters one of them again, whatever settles or is called
\* later (dropped holds the messages such a stop found in flight).
C33_DroppedIsGone ==
    \A m \in dropped : Occurrences(m) = 0

\* The same for a queue in competing mode
C33_DroppedIsGoneCompeting ==
    deliveryMode = "competing" => C33_DroppedIsGone

\* ------------------------------------------------------------------ C34
\* C34: when the handler of the only matching autoAck consumer calls
\* ack(message) itself, the message is moved to acked exactly once and the
\* consumer's acked counter rises by exactly one: no message is in acked
\* twice, the counter is the number of acked messages, and the settlement of
\* an invocation whose message the handler acknowledged changes nothing.
\* The consumer is the only one of the queue, so it is the only one that
\* matches.
C34_HandlerAckCountsOnce ==
    /\ [](Len(consumerHeap) = 1 =>
             /\ \A m \in 1..Len(messages) : EntriesOf(receivedMessages, m) <= 1
             /\ consumerHeap[1].acked = Len(receivedMessages))
    /\ [][Len(consumerHeap) = 1 =>
             \A i \in 1..Len(invocations) :
                 (Completes(i) /\ invocations[i].message \in Range(receivedMessages))
                     => QueueUnchanged]_vars

\* The handler of the second invocation acknowledged its message and then
\* threw; the callback that settles it has not run yet.  Both messages are in
\* acked once and the consumer's counter is 2
C34_Witness ==
    \E i, j \in 1..Len(invocations) :
        /\ invocations[i].state = "done"
        /\ invocations[j].state = "caught"
        /\ receivedMessages = << invocations[i].message, invocations[j].message >>
        /\ consumerHeap[invocations[j].consumer].acked = 2
        /\ inFlightRecords = << >>

\* ------------------------------------------------------------------ C35
\* C35: in a flush with fail-fast active a dispatch pass dispatches at most
\* one message, and a message is dispatched only after every handler
\* invocation of the messages that flush dispatched before has settled, so
\* the handler invocations of two messages of the flush never overlap.
C35_FailFastOneAtATime ==
    \A f \in 1..Len(flushes) :
        flushes[f].failFast =>
            \A i, j \in InvocationsOf(f) :
                /\ invocations[i].pass = invocations[j].pass
                       => invocations[i].delivery = invocations[j].delivery
                /\ invocations[i].delivery < invocations[j].delivery => Done(i)

\* A fail-fast flush on a broadcast queue gave the first message to two
\* consumers, whose handlers have both settled, and then the second message,
\* whose handler is running
C35_Witness ==
    \E f \in 1..Len(flushes) :
        /\ flushes[f].failFast
        /\ \E i, j, k \in InvocationsOf(f) :
               /\ i < j /\ j < k
               /\ invocations[i].delivery = invocations[j].delivery
               /\ invocations[j].delivery < invocations[k].delivery
               /\ invocations[i].message # invocations[k].message
               /\ Done(i) /\ Done(j)
               /\ invocations[k].state = "running"

\* ------------------------------------------------------------------ C36
\* The message of invocation i went back to ready and has been dispatched
\* again to the same consumer: the one record of it under that consumer is
\* that of a later invocation k, which has not settled
RedeliveredMeanwhile(i, k) ==
    /\ k > i
    /\ invocations[k].consumer = invocations[i].consumer
    /\ invocations[k].message = invocations[i].message
    /\ invocations[k].state # "done"
    /\ messages[invocations[i].message].redelivered
    /\ HeldCount(inFlightRecords,
                 consumerHeap[invocations[i].consumer].id,
                 invocations[i].message) = 1

\* C36: the automatic acknowledgement at the settlement of a handler
\* invocation applies to the delivery that spawned the invocation only: when
\* the message was nacked and has been redelivered to the same consumer, the
\* settlement of the earlier invocation leaves the redelivered message in
\* flight, and out of acked, while its new invocation has not settled.
C36_SettlementSparesRedelivery ==
    [][\A i, k \in 1..Len(invocations) :
          (/\ Completes(i)
           /\ consumerHeap[invocations[i].consumer].autoAck
           /\ RedeliveredMeanwhile(i, k)) =>
              /\ HeldIn(inFlightRecords',
                        consumerHeap[invocations[i].consumer].id,
                        invocations[i].message)
              /\ EntriesOf(receivedMessages', invocations[i].message)
                     = EntriesOf(receivedMessages, invocations[i].message)]_vars

\* ------------------------------------------------------------------ C37
\* Every delivery is made by one flush call, and (no message being requeued
\* here) every message is dispatched by one delivery
OneFlushPerDelivery ==
    \A i, j \in 1..Len(invocations) :
        /\ invocations[i].delivery = invocations[j].delivery
               => /\ invocations[i].flush = invocations[j].flush
                  /\ invocations[i].message = invocations[j].message
        /\ invocations[i].message = invocations[j].message
               => invocations[i].delivery = invocations[j].delivery

\* A flush call awaits, and records the errors of, its own invocations only
KeepsToItsOwn(f) ==
    /\ flushes[f].pendingHandlers \subseteq InvocationsOf(f)
    /\ flushes[f].waitOn \subseteq InvocationsOf(f)
    /\ Range(flushes[f].errors) \subseteq FailedOf(f)

\* C37: when two flush calls on the same queue overlap, each ready message
\* is dispatched by at most one of them per delivery, each flush waits only
\* for, and reports only the failures of, the handler invocations it
\* dispatched itself, and the prefetch bound of every consumer holds across
\* both.
C37_OverlappingFlushes ==
    /\ OneFlushPerDelivery
    /\ \A f \in 1..Len(flushes) :
           /\ KeepsToItsOwn(f)
           /\ Settled(f) => /\ \A i \in InvocationsOf(f) : Done(i)
                            /\ RejectsWithItsErrors(f)
    /\ \A c \in 1..Len(consumerHeap) : WithinPrefetch(c)

\* A second flush call dispatched a message and resolved while a handler
\* dispatched by the first call, which has failed, keeps the first call
\* unsettled
C37_Witness ==
    \E f, g \in 1..Len(flushes) :
        /\ f < g
        /\ ~Settled(f)
        /\ flushes[g].pc = "resolved"
        /\ \E i \in InvocationsOf(f), j \in InvocationsOf(g) :
               /\ i < j
               /\ invocations[i].state = "caught"
               /\ Done(j)

\* ------------------------------------------------------------------ C38
\* The number of in-flight records of the messages with the id of m
RecordsOfId(m) ==
    Cardinality({ r \in 1..Len(inFlightRecords) :
                      messages[inFlightRecords[r].message].id = messages[m].id })

\* C38: in competing mode, clear() never being called, every message id has
\* at most one in-flight record at any time and occurs at most once across
\* ready, in-flight and acked, so that no message is acknowledged twice.
C38_CompetingOnePlace ==
    deliveryMode = "competing" =>
        \A m \in 1..Len(messages) :
            /\ RecordsOfId(m) <= 1
            /\ Occurrences(m) <= 1
            /\ EntriesOf(receivedMessages, m) <= 1

\* A competing queue with two consumers: a message was dispatched, nacked,
\* dispatched again and acknowledged
C38_Witness ==
    /\ deliveryMode = "competing"
    /\ Len(consumers) = 2
    /\ \E i, j \in 1..Len(invocations) :
           /\ i < j
           /\ invocations[i].message = invocations[j].message
           /\ messages[invocations[i].message].redelivered
           /\ invocations[i].message \in Range(receivedMessages)

\* ------------------------------------------------------------------ C39
\* stats() of a consume handle: the consumer's counters and the length of its
\* in-flight list
stats(c) ==
    [ delivered |-> consumerHeap[c].delivered, acked |-> consumerHeap[c].acked,
      nacked |-> consumerHeap[c].nacked, inFlight |-> Len(consumerHeap[c].inFlight) ]

\* C39: for every consumer that is registered and was never stopped, in
\* every reachable state, stats() has delivered = acked + nacked + inFlight,
\* in either delivery mode and whether a handler settlement, a public ack or
\* a public nack took each delivery out of in-flight.
C39_StatsBalance ==
    \A c \in Range(consumers) :
        ~consumerHeap[c].stopped =>
            stats(c).delivered
                = stats(c).acked + stats(c).nacked + stats(c).inFlight

\* A registered consumer made by consume was handed three deliveries: one was
\* acknowledged, one nacked, and one is in flight
C39_Witness ==
    \E c \in Range(consumers) :
        /\ ~consumerHeap[c].stopped /\ ~consumerHeap[c].bySubscribe
        /\ stats(c) = [ delivered |-> 3, acked |-> 1, nacked |-> 1, inFlight |-> 1 ]

\* ------------------------------------------------------------------ C40
\* The number of entries of consumer c's own in-flight list, and of in-flight
\* records attributed to c's id, that are messages with the id of m
HeldByConsumer(c, m) ==
    Cardinality({ k \in 1..Len(consumerHeap[c].inFlight) :
                      messages[consumerHeap[c].inFlight[k]].id = messages[m].id })

RecordedFor(c, m) ==
    Cardinality({ r \in 1..Len(inFlightRecords) :
                      /\ inFlightRecords[r].consumerId = consumerHeap[c].id
                      /\ messages[inFlightRecords[r].message].id = messages[m].id })

\* C40: for every registered consumer, in every reachable state, the
\* messages of its own in-flight list are exactly the messages of the queue's
\* in-flight records attributed to its id, with the same ids and the same
\* multiplicity, so that no consumer is counted as saturated by a message
\* that has no in-flight record.
C40_ConsumerListMatchesRecords ==
    \A c \in Range(consumers) :
        /\ Len(consumerHeap[c].inFlight) = Cardinality(RecordsOf(c))
        /\ \A m \in 1..Len(messages) : HeldByConsumer(c, m) = RecordedFor(c, m)

\* stop() of a handle whose consumer clear() took out of the registry: the
\* handle outlives the clear with its consumer object, and the call is the
\* same stopConsumer.
StaleStop(consumer, requeueInFlight) ==
    /\ consumer \notin Range(consumers)
    /\ ~consumerHeap[consumer].stopped
    /\ Commit(stopConsumer(Queue, consumer, requeueInFlight))
    /\ UNCHANGED << options, waiters, messageCount, consumerCount, flushes, calls >>

\* Manual-ack consumers, one clear() in the middle of the work, and handles
\* from before the clear that are stopped after it
NextStale ==
    \/ \E type \in MessageTypes : Publish(type)
    \/ \E type \in MessageTypes, prefetch \in PrefetchChoices :
           Consume(type, prefetch, FALSE)
    \/ Clear
    \/ \E c \in 1..Len(consumerHeap), requeueInFlight \in BOOLEAN :
           StaleStop(c, requeueInFlight)
    \/ \E opts \in FlushOptionChoices : FlushStart(opts)
    \/ \E f \in 1..Len(flushes) : FlushResume(f)
    \/ \E f \in 1..Len(flushes) : FlushSettle(f)
    \/ \E i \in 1..Len(invocations) : InvokeHandler(i)
    \/ \E i \in 1..Len(invocations) : HandlerFulfil(i)

SpecStale == InitDefault /\ [][NextStale]_vars

=============================================================================
